---- MODULE Spec2Model ----
(***************************************************************************)
(* Model of the search core of the engine: src/src/search.cpp              *)
(* (MainThread::search, Thread::search, search<NT>, qsearch<NT,InCheck>,   *)
(* value_to_tt / value_from_tt, MainThread::check_time).                   *)
(*                                                                         *)
(* Position, move generation, the transposition table contents, the clock  *)
(* and the static evaluator are collaborators outside search.cpp: every    *)
(* answer they give is drawn with \E from a small set, and every branch of *)
(* search.cpp that tests such an answer is kept as a branch of the model.  *)
(***************************************************************************)
EXTENDS Integers, Sequences, FiniteSets, TLC

\* ------------------------------------------------------------------------
\* Program constants (types.h, evaluate.h, search.cpp)
\* ------------------------------------------------------------------------
VALUE_ZERO == 0
VALUE_DRAW == 0
VALUE_KNOWN_WIN == 10000
VALUE_MATE == 32000
VALUE_INFINITE == 32001
VALUE_NONE == 32002
MAX_PLY == 128
VALUE_MATE_IN_MAX_PLY == VALUE_MATE - 2 * MAX_PLY
VALUE_MATED_IN_MAX_PLY == -VALUE_MATE + 2 * MAX_PLY
ONE_PLY == 1
DEPTH_ZERO == 0
DEPTH_MAX == MAX_PLY
MOVE_NONE == 0
CheckTimeCalls == 4096

mate_in(ply) == VALUE_MATE - ply
mated_in(ply) == -VALUE_MATE + ply

Max(a, b) == IF a >= b THEN a ELSE b
Min(a, b) == IF a <= b THEN a ELSE b
Abs(a) == IF a >= 0 THEN a ELSE -a
\* C++ integer division truncates toward zero; \div floors.
CDiv(a, b) == IF a >= 0 THEN a \div b ELSE -((-a) \div b)

\* ------------------------------------------------------------------------
\* Bounds of the model
\* ------------------------------------------------------------------------
MaxRootMoves == 2
MaxRootDepth == 2
MaxHeight == 2
MaxMoves == 2
MaxNas == 2


\* ------------------------------------------------------------------------
\* State
\* ------------------------------------------------------------------------
VARIABLES
    stop,             \* Threads.stop
    ponder,           \* Threads.ponder
    stopOnPonderhit,  \* Threads.stopOnPonderhit
    Limits,           \* Search::Limits of the current go command
    MultiPV,          \* Options["MultiPV"]
    rootPos,          \* what the model keeps of the root position
    nThreads,         \* Options["Threads"]: size of the thread pool
    mainPc,           \* position of the main thread in MainThread::search
    callsCnt,         \* MainThread::callsCnt
    searching,        \* Thread::searching, per thread
    thPc,             \* position of each thread in Thread::search
    rootDepth,        \* Thread::rootDepth
    completedDepth,   \* Thread::completedDepth
    PVIdx,            \* Thread::PVIdx
    rootMoves,        \* Thread::rootMoves
    asp,              \* locals of Thread::search: alpha, beta, delta, bestValue
    stk,              \* per thread, the running search / qsearch invocations
    out,              \* what MainThread::search printed
    gui,              \* the commands the GUI sent during this search
    obs,              \* observations of the run, per thread (history variable)
    unit              \* a function of search.cpp applied to drawn arguments

sysVars == << stop, ponder, stopOnPonderhit, Limits, MultiPV, rootPos, nThreads,
              mainPc, callsCnt, searching, thPc, rootDepth, completedDepth,
              PVIdx, rootMoves, asp, stk, out, gui, obs >>
vars == << stop, ponder, stopOnPonderhit, Limits, MultiPV, rootPos, nThreads,
           mainPc, callsCnt, searching, thPc, rootDepth, completedDepth,
           PVIdx, rootMoves, asp, stk, out, gui, obs, unit >>

AllThreads == {0, 1}
MainId == 0
Threads == 0 .. (nThreads - 1)
Workers == Threads \ {MainId}

\* Scores that the collaborators (evaluate, TT) hand to the search: a loss,
\* and a win. Draw and mate scores come from the search itself.
Vals == {-90, 70}

\* ------------------------------------------------------------------------
\* value_to_tt / value_from_tt (search.cpp 1247-1269)
\* ------------------------------------------------------------------------
value_to_tt(v, ply) ==
    IF v >= VALUE_MATE_IN_MAX_PLY THEN v + ply
    ELSE IF v <= VALUE_MATED_IN_MAX_PLY THEN v - ply
    ELSE v

\* Mutant: the mate distance is shifted the wrong way when read back.
value_from_tt_sameShift(v, ply) ==
    IF v = VALUE_NONE THEN VALUE_NONE
    ELSE IF v >= VALUE_MATE_IN_MAX_PLY THEN v + ply
    ELSE IF v <= VALUE_MATED_IN_MAX_PLY THEN v - ply
    ELSE v

value_from_tt(v, ply) ==
    IF v = VALUE_NONE THEN VALUE_NONE
    ELSE IF v >= VALUE_MATE_IN_MAX_PLY THEN v - ply
    ELSE IF v <= VALUE_MATED_IN_MAX_PLY THEN v + ply
    ELSE v

\* ------------------------------------------------------------------------
\* Root moves (search.h RootMove, RootMoves) and their stable sort
\* ------------------------------------------------------------------------
RootMove(m) == [pv |-> << m >>, score |-> -VALUE_INFINITE,
                previousScore |-> -VALUE_INFINITE]

InitialRootMoves(n) == [i \in 1 .. n |-> RootMove(i)]

\* RootMove::operator< sorts in descending order of score.
RootMoveLess(a, b) == b.score < a.score

\* Insert x into the sorted sequence s behind every entry that is not after it.
RECURSIVE StableInsert(_, _)
StableInsert(s, x) ==
    IF s = << >> THEN << x >>
    ELSE IF RootMoveLess(x, s[Len(s)])
         THEN Append(StableInsert(SubSeq(s, 1, Len(s) - 1), x), s[Len(s)])
         ELSE Append(s, x)

RECURSIVE StableSorted(_)
StableSorted(s) ==
    IF s = << >> THEN << >>
    ELSE StableInsert(StableSorted(SubSeq(s, 1, Len(s) - 1)), s[Len(s)])

\* Mutant: the sorted range is filled with its first entry.
stable_sort_fill(rm, from, to) ==
    [i \in 1 .. Len(rm) |-> IF from <= i /\ i <= to THEN rm[from] ELSE rm[i]]

\* std::stable_sort(rm.begin() + from - 1, rm.begin() + to) on 1-based indices
stable_sort(rm, from, to) ==
    SubSeq(rm, 1, from - 1) \o StableSorted(SubSeq(rm, from, to))
        \o SubSeq(rm, to + 1, Len(rm))

FirstMoves(rm) == {rm[i].pv[1] : i \in 1 .. Len(rm)}

\* index of the entry of rm whose first move is m (std::find)
FindMove(rm, m) == CHOOSE i \in 1 .. Len(rm) : rm[i].pv[1] = m

\* ------------------------------------------------------------------------
\* Limits (search.h LimitsType) and the go commands of the model
\* ------------------------------------------------------------------------
LimitsType(inf, mate, depth, movetime, nodes) ==
    [infinite |-> inf, mate |-> mate, depth |-> depth,
     movetime |-> movetime, nodes |-> nodes]

use_time_management(L) ==
    ~(L.mate > 0 \/ L.movetime > 0 \/ L.depth > 0 \/ L.nodes > 0 \/ L.infinite)

\* The go commands of the model: the limits, "go ponder", the options MultiPV
\* and Threads, and the position: its legal moves, whether the side to move is
\* in check, its game ply and the height of its game tree (the moves that can
\* be made in a row from it), and callsCnt as the previous search left it.
GoCommand(L, pm, mpv, nt, n, chk, gp, h, cc) ==
    [limits |-> L, ponder |-> pm, MultiPV |-> mpv, Threads |-> nt, moves |-> n,
     inCheck |-> chk, gamePly |-> gp, height |-> h, callsCnt |-> cc]

Clock == LimitsType(FALSE, 0, 0, 0, 0)          \* go wtime .. btime ..
Infinite == LimitsType(TRUE, 0, 0, 0, 0)        \* go infinite
Mate1 == LimitsType(FALSE, 1, 0, 0, 0)          \* go mate 1
Depth1 == LimitsType(FALSE, 0, 1, 0, 0)         \* go depth 1
Nodes1024 == LimitsType(FALSE, 0, 0, 0, 1024)   \* go nodes 1024
InfiniteMovetime == LimitsType(TRUE, 0, 0, 1000, 0)  \* go infinite movetime 1000

GoCommands ==
    { GoCommand(Clock, FALSE, 1, 1, 1, FALSE, 0, MaxHeight, 2),
      GoCommand(Clock, TRUE, 1, 1, 1, FALSE, 0, 1, 0),
      GoCommand(Clock, FALSE, 1, 1, MaxRootMoves, FALSE, 0, 1, 2),
      GoCommand(Infinite, FALSE, 2, 1, MaxRootMoves, FALSE, 0, 1, 2),
      GoCommand(Mate1, TRUE, 1, 1, 1, FALSE, 0, 1, 2),
      GoCommand(Depth1, TRUE, 1, 1, 1, FALSE, 0, 1, 2),
      GoCommand(Nodes1024, FALSE, 1, 1, 1, FALSE, 0, MaxHeight, 0),
      GoCommand(InfiniteMovetime, FALSE, 1, 1, 1, FALSE, 0, 1, 0),
      GoCommand(Infinite, FALSE, 1, 2, 1, FALSE, 1, 1, 2),
      GoCommand(Depth1, FALSE, 1, 2, 1, FALSE, 0, 1, 2),
      GoCommand(Clock, FALSE, 1, 1, 0, FALSE, 0, 0, 2),
      GoCommand(Infinite, TRUE, 2, 2, 0, TRUE, 0, 0, 2) }

\* What the last step of a thread did (k: the step; underStop: Threads.stop
\* was set when it ran; late: the invocation was entered with stop set; saved:
\* it called tte->save; ret: it returned, with value v; wrote: it assigned a
\* rootMoves score), and nas, the nodes the thread counted since stop was set.
NoLabel == [k |-> "-", underStop |-> FALSE, late |-> FALSE, saved |-> FALSE,
            ret |-> FALSE, v |-> 0, wrote |-> FALSE, nas |-> 0]

NoOutput == [printed |-> FALSE, info |-> VALUE_NONE,
             bestmove |-> MOVE_NONE, ponderMove |-> MOVE_NONE,
             bestThread |-> MainId]

IdleAsp == [alpha |-> -VALUE_INFINITE, beta |-> VALUE_INFINITE,
            delta |-> -VALUE_INFINITE, bestValue |-> -VALUE_INFINITE]

NoUnit == [op |-> "-"]

InitSys ==
    /\ stop = FALSE
    /\ ponder = FALSE
    /\ stopOnPonderhit = FALSE
    /\ Limits = LimitsType(FALSE, 0, 0, 0, 0)
    /\ MultiPV = 1
    /\ rootPos = [nMoves |-> 0, inCheck |-> FALSE, gamePly |-> 0, height |-> 0]
    /\ nThreads = 1
    /\ mainPc = "idle"
    /\ callsCnt = 0
    /\ searching = [t \in AllThreads |-> FALSE]
    /\ thPc = [t \in AllThreads |-> "idle"]
    /\ rootDepth = [t \in AllThreads |-> DEPTH_ZERO]
    /\ completedDepth = [t \in AllThreads |-> DEPTH_ZERO]
    /\ PVIdx = [t \in AllThreads |-> 0]
    /\ rootMoves = [t \in AllThreads |-> << >>]
    /\ asp = [t \in AllThreads |-> IdleAsp]
    /\ stk = [t \in AllThreads |-> << >>]
    /\ out = NoOutput
    /\ gui = {}
    /\ obs = [t \in AllThreads |-> NoLabel]

Init == InitSys /\ unit = NoUnit

\* ------------------------------------------------------------------------
\* The GUI side (uci.cpp go / stop / ponderhit, ThreadPool::start_thinking)
\* ------------------------------------------------------------------------
\* "go": start_thinking waits for the previous search, clears stop and
\* stopOnPonderhit, sets ponder, copies the legal moves of the root position
\* to every thread and wakes the main thread.
StartThinking(c) ==
    /\ mainPc = "idle"
    /\ stop' = FALSE
    /\ stopOnPonderhit' = FALSE
    /\ ponder' = c.ponder
    /\ Limits' = c.limits
    /\ MultiPV' = c.MultiPV
    /\ nThreads' = c.Threads
    /\ rootPos' = [nMoves |-> c.moves, inCheck |-> c.inCheck,
                   gamePly |-> c.gamePly, height |-> c.height]
    /\ callsCnt' = c.callsCnt
    /\ mainPc' = "search"
    /\ searching' = [t \in AllThreads |-> t = MainId]
    /\ thPc' = [t \in AllThreads |-> "idle"]
    /\ rootDepth' = [t \in AllThreads |-> DEPTH_ZERO]
    /\ completedDepth' = [t \in AllThreads |-> DEPTH_ZERO]
    /\ PVIdx' = [t \in AllThreads |-> 0]
    /\ rootMoves' = [t \in AllThreads |-> InitialRootMoves(c.moves)]
    /\ asp' = [t \in AllThreads |-> IdleAsp]
    /\ stk' = [t \in AllThreads |-> << >>]
    /\ out' = NoOutput
    /\ gui' = {}
    /\ obs' = [t \in AllThreads |-> NoLabel]
    /\ UNCHANGED unit

Go == \E c \in GoCommands : StartThinking(c)

\* "stop": raises Threads.stop.
GuiStop ==
    /\ mainPc # "idle"
    /\ "stop" \notin gui
    /\ gui' = gui \cup {"stop"}
    /\ stop' = TRUE
    /\ UNCHANGED << ponder, stopOnPonderhit, Limits, MultiPV, rootPos, nThreads,
                    mainPc, callsCnt, searching, thPc, rootDepth, completedDepth,
                    PVIdx, rootMoves, asp, stk, out, obs, unit >>

\* "ponderhit": stops the search when stopOnPonderhit is set, otherwise
\* switches from pondering to a normal search.
GuiPonderhit ==
    /\ mainPc # "idle"
    /\ ponder
    /\ "ponderhit" \notin gui
    /\ gui' = gui \cup {"ponderhit"}
    /\ IF stopOnPonderhit
       THEN stop' = TRUE /\ UNCHANGED ponder
       ELSE ponder' = FALSE /\ UNCHANGED stop
    /\ UNCHANGED << stopOnPonderhit, Limits, MultiPV, rootPos, nThreads,
                    mainPc, callsCnt, searching, thPc, rootDepth, completedDepth,
                    PVIdx, rootMoves, asp, stk, out, obs, unit >>

\* ------------------------------------------------------------------------
\* MainThread::search (search.cpp 162-245)
\* ------------------------------------------------------------------------
\* Mutant: the score of a position without legal moves is always a draw.
NoMoveScore_draw(inCheck) == VALUE_DRAW

\* 180-181: the score printed for a root position without legal moves:
\* rootPos.checkers() ? -VALUE_MATE : VALUE_DRAW
NoMoveScore(inCheck) == IF inCheck THEN -VALUE_MATE ELSE VALUE_DRAW

\* 177-191: no legal move: record MOVE_NONE and print "info depth 0 score";
\* otherwise wake the workers and enter Thread::search.
MainThread_search_start ==
    /\ mainPc = "search"
    /\ IF rootMoves[MainId] = << >>
       THEN /\ rootMoves' = [rootMoves EXCEPT ![MainId] = << RootMove(MOVE_NONE) >>]
            /\ out' = [out EXCEPT !.info = NoMoveScore(rootPos.inCheck)]
            /\ mainPc' = "wait"
            /\ stopOnPonderhit' = TRUE                       \* line 198
            /\ UNCHANGED << searching, thPc >>
       ELSE /\ searching' = [t \in AllThreads |-> t \in Threads]
            /\ thPc' = [t \in AllThreads |-> IF t \in Threads THEN "begin" ELSE "idle"]
            /\ mainPc' = "thinking"
            /\ UNCHANGED << rootMoves, stopOnPonderhit, out >>
    /\ UNCHANGED << stop, ponder, Limits, MultiPV, rootPos, nThreads, callsCnt,
                    rootDepth, completedDepth, PVIdx, asp, stk, gui, obs, unit >>

\* 190-198: Thread::search of the main thread has returned.
MainThread_search_finished ==
    /\ mainPc = "thinking"
    /\ thPc[MainId] = "ret"
    /\ thPc' = [thPc EXCEPT ![MainId] = "idle"]
    /\ stopOnPonderhit' = TRUE
    /\ mainPc' = "wait"
    /\ UNCHANGED << stop, ponder, Limits, MultiPV, rootPos, nThreads, callsCnt,
                    searching, rootDepth, completedDepth, PVIdx, rootMoves, asp,
                    stk, out, gui, obs, unit >>

\* 200-201: busy wait for a stop or a ponder reset.
MainThread_search_wait ==
    /\ mainPc = "wait"
    /\ ~(~stop /\ (ponder \/ Limits.infinite))
    /\ mainPc' = "raise"
    /\ UNCHANGED << stop, ponder, stopOnPonderhit, Limits, MultiPV, rootPos,
                    nThreads, callsCnt, searching, thPc, rootDepth, completedDepth,
                    PVIdx, rootMoves, asp, stk, out, gui, obs, unit >>

\* 205: Threads.stop = true.
MainThread_search_raise ==
    /\ mainPc = "raise"
    /\ stop' = TRUE
    /\ mainPc' = "join"
    /\ UNCHANGED << ponder, stopOnPonderhit, Limits, MultiPV, rootPos,
                    nThreads, callsCnt, searching, thPc, rootDepth, completedDepth,
                    PVIdx, rootMoves, asp, stk, out, gui, obs, unit >>

\* Mutant: the main thread does not wait for the workers.
MainThread_search_join_nowait ==
    /\ mainPc = "join"
    /\ mainPc' = "select"
    /\ UNCHANGED << stop, ponder, stopOnPonderhit, Limits, MultiPV, rootPos,
                    nThreads, callsCnt, searching, thPc, rootDepth, completedDepth,
                    PVIdx, rootMoves, asp, stk, out, gui, obs, unit >>

\* 208-210: th->wait_for_search_finished() for every worker: blocks until the
\* worker's searching flag is down.
MainThread_search_join ==
    /\ mainPc = "join"
    /\ \A w \in Workers : ~searching[w]
    /\ mainPc' = "select"
    /\ UNCHANGED << stop, ponder, stopOnPonderhit, Limits, MultiPV, rootPos,
                    nThreads, callsCnt, searching, thPc, rootDepth, completedDepth,
                    PVIdx, rootMoves, asp, stk, out, gui, obs, unit >>

\* Thread::idle_loop: a worker whose Thread::search returned goes back to sleep.
Thread_idle_loop(w) ==
    /\ w \in Workers
    /\ thPc[w] = "ret"
    /\ thPc' = [thPc EXCEPT ![w] = "idle"]
    /\ searching' = [searching EXCEPT ![w] = FALSE]
    /\ UNCHANGED << stop, ponder, stopOnPonderhit, Limits, MultiPV, rootPos,
                    nThreads, mainPc, callsCnt, rootDepth, completedDepth,
                    PVIdx, rootMoves, asp, stk, out, gui, obs, unit >>

\* Mutant: a thread is taken as soon as its score is not worse.
PickBest_noDepth(best, th, n, cd, sc) ==
    IF sc[th] - sc[best] >= 0 THEN th ELSE best

\* 223-229: one round of the loop over the threads: th replaces best when its
\* score is strictly better and it is at least as deep or has a proven mate.
PickBest(best, th, n, cd, sc) ==
    IF /\ sc[th] - sc[best] > 0
       /\ (cd[th] - cd[best] >= 0 \/ sc[th] >= VALUE_MATE_IN_MAX_PLY)
    THEN th ELSE best

RECURSIVE BestThreadLoop(_, _, _, _, _)
BestThreadLoop(best, th, n, cd, sc) ==
    IF th >= n THEN best
    ELSE BestThreadLoop(PickBest(best, th, n, cd, sc), th + 1, n, cd, sc)

\* 218-231: cd and sc give completedDepth and rootMoves[0].score of each thread,
\* first the first move of the main thread's best line.
BestThread(n, mpv, first, cd, sc) ==
    IF mpv = 1 /\ first # MOVE_NONE THEN BestThreadLoop(MainId, 0, n, cd, sc)
    ELSE MainId

\* 217-233
MainThread_search_select ==
    /\ mainPc = "select"
    /\ out' = [out EXCEPT !.bestThread =
                 BestThread(nThreads, MultiPV, rootMoves[MainId][1].pv[1],
                            completedDepth,
                            [t \in AllThreads |->
                               IF rootMoves[t] = << >> THEN -VALUE_INFINITE
                               ELSE rootMoves[t][1].score])]
    /\ mainPc' = "output"
    /\ UNCHANGED << stop, ponder, stopOnPonderhit, Limits, MultiPV, rootPos,
                    nThreads, callsCnt, searching, thPc, rootDepth, completedDepth,
                    PVIdx, rootMoves, asp, stk, gui, obs, unit >>

\* 239-244 and RootMove::extract_ponder_from_tt (1454-1476): the bestmove line.
\* When the best line has one move only, a legal TT move of the position
\* after it (hit) is appended to it.
MainThread_search_output ==
    /\ mainPc = "output"
    /\ \E hit \in BOOLEAN :
        LET bt == out.bestThread
            rm == rootMoves[bt][1]
            found == Len(rm.pv) = 1 /\ rm.pv[1] # MOVE_NONE /\ hit
            pv == IF found THEN Append(rm.pv, 1) ELSE rm.pv
        IN /\ rootMoves' = [rootMoves EXCEPT ![bt][1].pv = pv]
           /\ out' = [out EXCEPT !.printed = TRUE,
                                 !.bestmove = pv[1],
                                 !.ponderMove = IF Len(pv) > 1 THEN pv[2] ELSE MOVE_NONE]
    /\ mainPc' = "idle"
    /\ searching' = [searching EXCEPT ![MainId] = FALSE]
    /\ UNCHANGED << stop, ponder, stopOnPonderhit, Limits, MultiPV, rootPos,
                    nThreads, callsCnt, thPc, rootDepth, completedDepth,
                    PVIdx, asp, stk, gui, obs, unit >>

\* ------------------------------------------------------------------------
\* Thread::search (search.cpp 252-437)
\* ------------------------------------------------------------------------
skipSize == << 1, 1, 2, 2, 2, 2, 3, 3, 3, 3, 3, 3, 4, 4, 4, 4, 4, 4, 4, 4 >>
skipPhase == << 0, 1, 0, 1, 2, 3, 0, 1, 2, 3, 4, 5, 0, 1, 2, 3, 4, 5, 6, 7 >>

\* Mutant: the phase of the helper is left out.
SkipsDepth_nophase(idx, d, gamePly) ==
    /\ idx # 0
    /\ LET i == (idx - 1) % 20
       IN (((d \div ONE_PLY) + gamePly) \div skipSize[i + 1]) % 2 = 1

\* 284-289: does the helper thread idx skip the iteration of depth d?
SkipsDepth(idx, d, gamePly) ==
    /\ idx # 0
    /\ LET i == (idx - 1) % 20
       IN (((d \div ONE_PLY) + gamePly + skipPhase[i + 1]) \div skipSize[i + 1]) % 2 = 1

\* An invocation of search<NT> or qsearch<NT, InCheck> with what the model
\* keeps of its arguments and locals. same: the callee searches the position
\* of its caller (razoring, verification). late: Threads.stop was set when
\* the invocation was entered. taint: a value returned by the step 2 or
\* step 18 stop exit has flowed into the value this frame holds. lateMoves:
\* the moves its move loop made while Threads.stop was set.
Frame(fn, nt, ply, depth, chk, skipEarly, same) ==
    [fn |-> fn, NT |-> nt, ply |-> ply, depth |-> depth, inCheck |-> chk,
     skipEarly |-> skipEarly, excluded |-> FALSE, same |-> same,
     pc |-> "enter", step |-> 0, n |-> 0, mc |-> 0, stage |-> "-", nd |-> 0,
     d |-> 0, gc |-> FALSE, had |-> FALSE, taint |-> FALSE, late |-> stop, lateMoves |-> 0,
     alpha |-> 0, beta |-> 0, bestValue |-> 0, value |-> 0,
     todo |-> {}, cur |-> MOVE_NONE]

\* 319: ::search<PV>(rootPos, ss, alpha, beta, rootDepth, false, false) for
\* the PV line idx (0-based) of the root move list rm.
RootFrame(a, rm, idx, d) ==
    [Frame("search", "PV", 0, d, FALSE, FALSE, FALSE) EXCEPT
        !.alpha = a.alpha, !.beta = a.beta,
        !.todo = FirstMoves(SubSeq(rm, idx + 1, Len(rm)))]

\* 307-312: reset of the aspiration window for PV line idx at depth d
Window(a, rm, idx, d) ==
    IF d >= 5 * ONE_PLY
    THEN [a EXCEPT !.delta = 18,
                   !.alpha = Max(rm[idx + 1].previousScore - 18, -VALUE_INFINITE),
                   !.beta = Min(rm[idx + 1].previousScore + 18, VALUE_INFINITE)]
    ELSE a

multiPV(t) == Min(MultiPV, Len(rootMoves[t]))

Clear(t) == [obs EXCEPT ![t] = [NoLabel EXCEPT !.nas = obs[t].nas]]

\* 254-276
Thread_search_begin(t) ==
    /\ thPc[t] = "begin"
    /\ asp' = [asp EXCEPT ![t] = IdleAsp]
    /\ thPc' = [thPc EXCEPT ![t] = "loop"]
    /\ UNCHANGED << stop, ponder, stopOnPonderhit, Limits, MultiPV, rootPos,
                    nThreads, mainPc, callsCnt, searching, rootDepth,
                    completedDepth, PVIdx, rootMoves, stk, out, gui, obs, unit >>

\* Mutant: the depth limit is not tested.
LoopCondition_nodepth(t, d) ==
    /\ d < DEPTH_MAX
    /\ ~stop

\* 279-281: the condition of the iterative deepening loop of thread t, d being
\* rootDepth after its increment
LoopCondition(t, d) ==
    LET mainThread == t = MainId
    IN /\ d < DEPTH_MAX
       /\ ~stop
       /\ ~(Limits.depth > 0 /\ mainThread /\ d \div ONE_PLY > Limits.depth)

\* 279-319: the test of the iterative deepening loop, the skip of a helper
\* thread, the save of the previous scores and the start of the first PV
\* line. The iteration counter is capped by MaxRootDepth. The test of
\* Threads.stop and the root call are one step: a stop raised between them
\* is to the search what a stop raised right after the call is.
Thread_search_loop(t) ==
    /\ thPc[t] = "loop"
    /\ LET d == rootDepth[t] + ONE_PLY
           cont == LoopCondition(t, d)
       IN /\ (cont => d <= MaxRootDepth)
          /\ rootDepth' = [rootDepth EXCEPT ![t] = d]
          /\ IF ~cont
             THEN /\ thPc' = [thPc EXCEPT ![t] = "ret"]
                  /\ UNCHANGED << rootMoves, PVIdx, asp, stk >>
             ELSE IF SkipsDepth(t, d, rootPos.gamePly)
             THEN UNCHANGED << thPc, rootMoves, PVIdx, asp, stk >>
             ELSE LET rm == [i \in 1 .. Len(rootMoves[t]) |->
                               [rootMoves[t][i] EXCEPT
                                   !.previousScore = rootMoves[t][i].score]]
                      a == Window(asp[t], rm, 0, d)
                  IN /\ rootMoves' = [rootMoves EXCEPT ![t] = rm]
                     /\ PVIdx' = [PVIdx EXCEPT ![t] = 0]
                     /\ asp' = [asp EXCEPT ![t] = a]
                     /\ stk' = [stk EXCEPT ![t] = << RootFrame(a, rm, 0, d) >>]
                     /\ thPc' = [thPc EXCEPT ![t] = "inSearch"]
    /\ obs' = Clear(t)
    /\ UNCHANGED << stop, ponder, stopOnPonderhit, Limits, MultiPV, rootPos,
                    nThreads, mainPc, callsCnt, searching, completedDepth,
                    out, gui, unit >>

\* Mutant: the window is put around bestValue with the first delta.
Widen_recenter(a) ==
    [a EXCEPT !.alpha = Max(a.bestValue - 18, -VALUE_INFINITE),
              !.beta = Min(a.bestValue + 18, VALUE_INFINITE)]

\* 345-361: the window after a fail low (bestValue <= alpha) or a fail high
\* (bestValue >= beta), and the next delta.
Widen(a) ==
    LET a1 == IF a.bestValue <= a.alpha
              THEN [a EXCEPT !.beta = CDiv(a.alpha + a.beta, 2),
                             !.alpha = Max(a.bestValue - a.delta, -VALUE_INFINITE)]
              ELSE [a EXCEPT !.beta = Min(a.bestValue + a.delta, VALUE_INFINITE)]
    IN [a1 EXCEPT !.delta = a.delta + CDiv(a.delta, 4) + 5]

\* 327-364: the root search has returned bestValue: sort, then leave the
\* aspiration loop on stop or on a value inside the window, otherwise widen
\* the window and search again.
Thread_search_aspRet(t) ==
    /\ thPc[t] = "aspRet"
    /\ LET a == asp[t]
           rm == stable_sort(rootMoves[t], PVIdx[t] + 1, Len(rootMoves[t]))
           low == a.bestValue <= a.alpha
           high == a.bestValue >= a.beta
           a2 == Widen(a)
       IN /\ rootMoves' = [rootMoves EXCEPT ![t] = rm]
          /\ IF stop \/ ~(low \/ high)
             THEN /\ thPc' = [thPc EXCEPT ![t] = "pvEnd"]
                  /\ UNCHANGED << asp, stk, stopOnPonderhit >>
             ELSE /\ asp' = [asp EXCEPT ![t] = a2]
                  /\ stk' = [stk EXCEPT ![t] = << RootFrame(a2, rm, PVIdx[t], rootDepth[t]) >>]
                  /\ thPc' = [thPc EXCEPT ![t] = "inSearch"]
                  /\ stopOnPonderhit' = IF low /\ t = MainId THEN FALSE
                                        ELSE stopOnPonderhit
    /\ obs' = Clear(t)
    /\ UNCHANGED << stop, ponder, Limits, MultiPV, rootPos, nThreads, mainPc,
                    callsCnt, searching, rootDepth, completedDepth, PVIdx,
                    out, gui, unit >>

\* 383-385: have we found a "mate in x"?
MateFound(L, bestValue) ==
    /\ L.mate > 0
    /\ bestValue >= VALUE_MATE_IN_MAX_PLY
    /\ VALUE_MATE - bestValue <= 2 * L.mate

\* Mutant: the flag is assigned the outcome of the test.
IterationEnd_assign(t, timeUp) ==
    [stop |-> MateFound(Limits, asp[t].bestValue),
     stopOnPonderhit |-> stopOnPonderhit]

\* 382-428: the writes to Threads.stop and Threads.stopOnPonderhit at the end
\* of an iteration. timeUp: the clock test of line 419.
IterationEnd(t, timeUp) ==
    LET stop1 == stop \/ MateFound(Limits, asp[t].bestValue)
        out_of_time == /\ t = MainId
                       /\ use_time_management(Limits)
                       /\ ~stop1 /\ ~stopOnPonderhit
                       /\ (Len(rootMoves[t]) = 1 \/ timeUp)
    IN [stop |-> stop1 \/ (out_of_time /\ ~ponder),
        stopOnPonderhit |-> stopOnPonderhit \/ (out_of_time /\ ponder)]

\* 367-372, the test of the MultiPV loop (301) and, when that loop is left,
\* the end of the iteration (374-429).
\* Mutant: the depth counts as completed whatever Threads.stop says.
CompletesDepth_always(stopped) == TRUE

\* 374: the test that guards completedDepth = rootDepth.
CompletesDepth(stopped) == ~stopped

Thread_search_pvEnd(t) ==
    /\ thPc[t] = "pvEnd"
    /\ LET rm == stable_sort(rootMoves[t], 1, PVIdx[t] + 1)
           idx == PVIdx[t] + 1
       IN /\ rootMoves' = [rootMoves EXCEPT ![t] = rm]
          /\ PVIdx' = [PVIdx EXCEPT ![t] = idx]
          /\ IF idx < multiPV(t) /\ ~stop
             THEN LET a == Window(asp[t], rm, idx, rootDepth[t])
                  IN /\ asp' = [asp EXCEPT ![t] = a]
                     /\ stk' = [stk EXCEPT ![t] = << RootFrame(a, rm, idx, rootDepth[t]) >>]
                     /\ thPc' = [thPc EXCEPT ![t] = "inSearch"]
                     /\ UNCHANGED << stop, stopOnPonderhit, completedDepth >>
             ELSE \E timeUp \in BOOLEAN :
                     LET e == IterationEnd(t, timeUp)
                     IN /\ completedDepth' =
                              IF CompletesDepth(stop)
                              THEN [completedDepth EXCEPT ![t] = rootDepth[t]]
                              ELSE completedDepth
                        /\ stop' = e.stop
                        /\ stopOnPonderhit' = e.stopOnPonderhit
                        /\ thPc' = [thPc EXCEPT ![t] = "loop"]
                        /\ UNCHANGED << asp, stk >>
    /\ obs' = Clear(t)
    /\ UNCHANGED << ponder, Limits, MultiPV, rootPos, nThreads, mainPc,
                    callsCnt, searching, rootDepth, out, gui, unit >>

\* ------------------------------------------------------------------------
\* MainThread::check_time (search.cpp 1366-1394)
\* ------------------------------------------------------------------------
\* cc: callsCnt; timeUp: the clock or node limit of the go command has been
\* reached. Gives the new callsCnt and Threads.stop. A counter reloaded with
\* CheckTimeCalls, more calls than a search of the model makes, is not
\* counted down.
check_time(cc, timeUp) ==
    LET fire == ~(cc - 1 > 0)
        reload == IF Limits.nodes > 0
                  THEN Min(CheckTimeCalls, Limits.nodes \div 1024)
                  ELSE CheckTimeCalls
        limited == \/ use_time_management(Limits)
                   \/ Limits.movetime > 0
                   \/ Limits.nodes > 0
    IN [callsCnt |-> IF fire THEN reload
                     ELSE IF cc = CheckTimeCalls THEN cc ELSE cc - 1,
        stop |-> stop \/ (fire /\ ~ponder /\ limited /\ timeUp)]

\* ------------------------------------------------------------------------
\* The call stack of a thread
\* ------------------------------------------------------------------------
Top(t) == stk[t][Len(stk[t])]

InFrame(t, fn, pc) ==
    /\ thPc[t] = "inSearch"
    /\ stk[t] # << >>
    /\ Top(t).fn = fn
    /\ Top(t).pc = pc

\* the observation of a step of frame f; node: the step called do_move
Label(t, k, f, saved, ret, v, wrote, node) ==
    [obs EXCEPT ![t] =
        [k |-> k, underStop |-> stop, late |-> f.late, saved |-> saved,
         ret |-> ret, v |-> v, wrote |-> wrote,
         nas |-> IF node /\ stop THEN Min(obs[t].nas + 1, MaxNas) ELSE obs[t].nas]]

\* the running invocation goes on as f
Continue(t, f) ==
    /\ stk' = [stk EXCEPT ![t] = [@ EXCEPT ![Len(@)] = f]]
    /\ UNCHANGED << asp, thPc >>

\* the running invocation, now f, calls g
Call(t, f, g) ==
    /\ stk' = [stk EXCEPT ![t] = Append([@ EXCEPT ![Len(@)] = f], g)]
    /\ UNCHANGED << asp, thPc >>

\* The caller c receives v. value = -search(..) in the move loop (kept for the
\* root only), v = qsearch(..) at razoring.
Accept(c, v, tnt) ==
    [c EXCEPT !.value = IF c.pc = "razorRet" THEN v
                        ELSE IF c.ply = 0 THEN -v ELSE 0,
              !.taint = c.taint \/ tnt,
              !.had = c.had \/ c.pc \in {"childRet", "qRet"}]

\* the running invocation returns v; tnt: v comes from a stop exit
Return(t, v, tnt) ==
    LET s == stk[t]
        n == Len(s)
    IN IF n = 1
       THEN /\ stk' = [stk EXCEPT ![t] = << >>]
            /\ asp' = [asp EXCEPT ![t].bestValue = v]
            /\ thPc' = [thPc EXCEPT ![t] = "aspRet"]
       ELSE /\ stk' = [stk EXCEPT ![t] =
                         Append(SubSeq(s, 1, n - 2), Accept(s[n - 1], v, tnt))]
            /\ UNCHANGED << asp, thPc >>

\* 688-712: the move picker of the move loop. At the root the moves are those
\* of rootMoves from PVIdx on (todo); elsewhere k moves, none at the height
\* of the game tree.
LoopInit(f, k) ==
    [f EXCEPT !.pc = "loop", !.n = IF f.ply = 0 THEN 0 ELSE k, !.mc = 0,
              !.had = FALSE, !.bestValue = IF f.ply = 0 THEN -VALUE_INFINITE ELSE 0]

MoveCounts(f) == IF f.ply >= rootPos.height THEN {0} ELSE 0 .. MaxMoves

\* ------------------------------------------------------------------------
\* search<NT> (search.cpp 445-1036)
\* ------------------------------------------------------------------------
\* Mutant: step 2 does not look at Threads.stop.
search_step2_nostop(f, stopped, draw) ==
    ~(f.NT = "PV" /\ f.ply = 0) /\ ((~f.same /\ draw) \/ f.ply >= MAX_PLY)

\* 484-487: the test of step 2. draw: pos.is_draw(ss->ply), which the caller
\* has already found false when the callee searches the same position.
search_step2(f, stopped, draw) ==
    ~(f.NT = "PV" /\ f.ply = 0) /\ (stopped \/ (~f.same /\ draw) \/ f.ply >= MAX_PLY)

\* 468-581: steps 1 to 5. timeUp: the limit tested by check_time is reached;
\* draw: is_draw; cut: "mdp" alpha >= beta at step 3, "tt" the TT entry cuts
\* off; v: the value of evaluate, of alpha or of the TT; npm: the side to move
\* has non pawn material; k: the moves the move picker will give.
search_enter(t) ==
    /\ InFrame(t, "search", "enter")
    /\ \E timeUp \in (IF t = MainId THEN BOOLEAN ELSE {FALSE}), draw \in BOOLEAN :
        LET f == Top(t)
            rootNode == f.NT = "PV" /\ f.ply = 0
            ct == IF t = MainId THEN check_time(callsCnt, timeUp)
                  ELSE [callsCnt |-> callsCnt, stop |-> stop]
        IN /\ callsCnt' = ct.callsCnt
           /\ stop' = ct.stop
           /\ IF search_step2(f, ct.stop, draw)
              THEN \E v \in (IF f.ply >= MAX_PLY /\ ~f.inCheck THEN Vals
                              ELSE {VALUE_DRAW}) :
                      /\ Return(t, v, ct.stop)
                      /\ obs' = [Label(t, "step2", f, FALSE, TRUE, v, FALSE, FALSE)
                                    EXCEPT ![t].underStop = ct.stop]
              ELSE \E cut \in {"no", "mdp", "tt"} :
                      IF cut = "mdp"
                      THEN /\ ~rootNode
                           /\ \E v \in Vals :
                                 /\ Return(t, v, f.taint)
                                 /\ obs' = Label(t, "step3", f, FALSE, TRUE, v,
                                                 FALSE, FALSE)
                      ELSE IF cut = "tt"
                      THEN /\ f.NT = "NonPV"
                           /\ \E v \in Vals :
                                 /\ Return(t, v, f.taint)
                                 /\ obs' = Label(t, "ttcut", f, FALSE, TRUE, v,
                                                 FALSE, FALSE)
                      ELSE \E ttHit \in BOOLEAN, npm \in BOOLEAN :
                             /\ IF f.inCheck \/ f.skipEarly \/ ~npm
                                THEN \E k \in MoveCounts(f) : Continue(t, LoopInit(f, k))
                                ELSE Continue(t, [f EXCEPT !.pc = "prune", !.step = 6])
                             /\ obs' = Label(t, "step5", f, ~f.inCheck /\ ~ttHit,
                                             FALSE, 0, FALSE, FALSE)
    /\ UNCHANGED << ponder, stopOnPonderhit, Limits, MultiPV, rootPos, nThreads,
                    mainPc, searching, rootDepth, completedDepth, PVIdx,
                    rootMoves, out, gui, unit >>

\* 583-592: step 6, razoring: eval + razor_margin <= alpha at a non-PV node of
\* depth < 4 calls qsearch<NonPV, false> on the same position.
search_razoring(t) ==
    /\ InFrame(t, "search", "prune")
    /\ LET f == Top(t)
       IN /\ f.step <= 6
          /\ f.NT = "NonPV"
          /\ f.depth < 4 * ONE_PLY
          /\ Call(t, [f EXCEPT !.pc = "razorRet"],
                  Frame("qsearch", "NonPV", f.ply, DEPTH_ZERO, FALSE, FALSE, TRUE))
          /\ obs' = Label(t, "step6", f, FALSE, FALSE, 0, FALSE, FALSE)
    /\ UNCHANGED << stop, ponder, stopOnPonderhit, Limits, MultiPV, rootPos,
                    nThreads, mainPc, callsCnt, searching, rootDepth,
                    completedDepth, PVIdx, rootMoves, out, gui, unit >>

\* 588-594: the value of the razoring qsearch is returned at depth <= ONE_PLY,
\* and at a greater depth when it is not above ralpha (low).
search_razoring_ret(t) ==
    /\ InFrame(t, "search", "razorRet")
    /\ \E low \in BOOLEAN :
        LET f == Top(t)
        IN IF f.depth <= ONE_PLY \/ low
           THEN /\ Return(t, f.value, f.taint)
                /\ obs' = Label(t, "step6", f, FALSE, TRUE, f.value, FALSE, FALSE)
           ELSE /\ Continue(t, [f EXCEPT !.pc = "prune", !.step = 7, !.value = 0])
                /\ obs' = Label(t, "step6", f, FALSE, FALSE, 0, FALSE, FALSE)
    /\ UNCHANGED << stop, ponder, stopOnPonderhit, Limits, MultiPV, rootPos,
                    nThreads, mainPc, callsCnt, searching, rootDepth,
                    completedDepth, PVIdx, rootMoves, out, gui, unit >>

\* 597-602: step 7, futility pruning of a child node returns its static eval.
search_futility(t) ==
    /\ InFrame(t, "search", "prune")
    /\ \E eval \in Vals :
        LET f == Top(t)
        IN /\ f.step <= 7
           /\ ~(f.NT = "PV" /\ f.ply = 0)
           /\ f.depth < 7 * ONE_PLY
           /\ eval < VALUE_KNOWN_WIN
           /\ Return(t, eval, f.taint)
           /\ obs' = Label(t, "step7", f, FALSE, TRUE, eval, FALSE, FALSE)
    /\ UNCHANGED << stop, ponder, stopOnPonderhit, Limits, MultiPV, rootPos,
                    nThreads, mainPc, callsCnt, searching, rootDepth,
                    completedDepth, PVIdx, rootMoves, out, gui, unit >>

\* 614: the null move reduction; gain is min((eval - beta) / PawnValueMg, 3)
NullReduction(depth, gain) ==
    (CDiv(823 + 67 * (depth \div ONE_PLY), 256) + gain) * ONE_PLY

\* the callee of lines 620-621 and 638-639: qsearch below ONE_PLY
ReducedSearch(ply, d, same) ==
    IF d < ONE_PLY
    THEN Frame("qsearch", "NonPV", ply, DEPTH_ZERO, FALSE, FALSE, same)
    ELSE Frame("search", "NonPV", ply, d, FALSE, TRUE, same)

\* 604-621: step 8, the null move search at a non-PV node with eval >= beta.
search_null(t) ==
    /\ InFrame(t, "search", "prune")
    /\ \E gain \in {0, 3} :
        LET f == Top(t)
            R == NullReduction(f.depth, gain)
        IN /\ f.step <= 8
           /\ f.NT = "NonPV"
           /\ Call(t, [f EXCEPT !.pc = "nullRet", !.nd = f.depth - R],
                   ReducedSearch(f.ply + 1, f.depth - R, FALSE))
           /\ obs' = Label(t, "step8", f, FALSE, FALSE, 0, FALSE, FALSE)
    /\ UNCHANGED << stop, ponder, stopOnPonderhit, Limits, MultiPV, rootPos,
                    nThreads, mainPc, callsCnt, searching, rootDepth,
                    completedDepth, PVIdx, rootMoves, out, gui, unit >>

\* 622-639: after the null move search. failHigh: nullValue >= beta; smallBeta:
\* abs(beta) < VALUE_KNOWN_WIN; v: nullValue. No verification search is
\* pending in the model, so thisThread->nmp_ply is zero here.
search_null_ret(t) ==
    /\ InFrame(t, "search", "nullRet")
    /\ \E failHigh \in BOOLEAN :
        LET f == Top(t)
            nmp_ply == 0
        IN IF ~failHigh
           THEN /\ Continue(t, [f EXCEPT !.pc = "prune", !.step = 9, !.nd = 0])
                /\ obs' = Label(t, "step8", f, FALSE, FALSE, 0, FALSE, FALSE)
           ELSE \E smallBeta \in BOOLEAN, v \in Vals :
                  IF smallBeta /\ (f.depth < 12 * ONE_PLY \/ nmp_ply # 0)
                  THEN /\ Return(t, v, f.taint)
                       /\ obs' = Label(t, "step8", f, FALSE, TRUE, v, FALSE, FALSE)
                  ELSE /\ Call(t, [f EXCEPT !.pc = "verifRet", !.nd = 0, !.value = v],
                               ReducedSearch(f.ply, f.nd, TRUE))
                       /\ obs' = Label(t, "step8", f, FALSE, FALSE, 0, FALSE, FALSE)
    /\ UNCHANGED << stop, ponder, stopOnPonderhit, Limits, MultiPV, rootPos,
                    nThreads, mainPc, callsCnt, searching, rootDepth,
                    completedDepth, PVIdx, rootMoves, out, gui, unit >>

\* 641-645: after the verification search. high: v >= beta.
search_verif_ret(t) ==
    /\ InFrame(t, "search", "verifRet")
    /\ \E high \in BOOLEAN :
        LET f == Top(t)
        IN IF high
           THEN /\ Return(t, f.value, f.taint)
                /\ obs' = Label(t, "step8", f, FALSE, TRUE, f.value, FALSE, FALSE)
           ELSE /\ Continue(t, [f EXCEPT !.pc = "prune", !.step = 9, !.value = 0])
                /\ obs' = Label(t, "step8", f, FALSE, FALSE, 0, FALSE, FALSE)
    /\ UNCHANGED << stop, ponder, stopOnPonderhit, Limits, MultiPV, rootPos,
                    nThreads, mainPc, callsCnt, searching, rootDepth,
                    completedDepth, PVIdx, rootMoves, out, gui, unit >>

\* 648-712: steps 9 and 10 need depth >= 5 and do not apply to the depths of
\* the model; the search goes on to the move loop.
search_moves_loop(t) ==
    /\ InFrame(t, "search", "prune")
    /\ \E k \in MoveCounts(Top(t)) :
        LET f == Top(t)
        IN /\ f.depth < 5 * ONE_PLY
           /\ Continue(t, LoopInit(f, k))
           /\ obs' = Label(t, "step11", f, FALSE, FALSE, 0, FALSE, FALSE)
    /\ UNCHANGED << stop, ponder, stopOnPonderhit, Limits, MultiPV, rootPos,
                    nThreads, mainPc, callsCnt, searching, rootDepth,
                    completedDepth, PVIdx, rootMoves, out, gui, unit >>

\* The callee of steps 15 (stage "lmr"), 16 ("fd") and of the PV search
\* ("pv"): 891, 900-903, 913-916.
ChildFrame(stage, ply, newDepth, d, givesCheck) ==
    IF stage = "lmr"
    THEN Frame("search", "NonPV", ply, d, givesCheck, FALSE, FALSE)
    ELSE LET nt == IF stage = "pv" THEN "PV" ELSE "NonPV"
         IN IF newDepth < ONE_PLY
            THEN Frame("qsearch", nt, ply, DEPTH_ZERO, givesCheck, FALSE, FALSE)
            ELSE Frame("search", nt, ply, newDepth, givesCheck, FALSE, FALSE)

\* 712-903: the next move of the move loop up to its first search. kind: the
\* move is pruned at step 13, found illegal, or made; m: the move (kept at
\* the root only); givesCheck; ext: the extension of step 12; quietOrMcp:
\* !captureOrPromotion || moveCountPruning; r: the reduction of step 15.
search_next_move(t) ==
    /\ InFrame(t, "search", "loop")
    /\ \E kind \in {"prune", "illegal", "make"},
          m \in (IF Top(t).ply = 0 THEN Top(t).todo ELSE {1}) :
        LET f == Top(t)
            rootNode == f.NT = "PV" /\ f.ply = 0
            ttMove == rootMoves[t][PVIdx[t] + 1].pv[1]
            f1 == IF rootNode
                  THEN [f EXCEPT !.todo = f.todo \ {m}, !.cur = m, !.taint = FALSE]
                  ELSE [f EXCEPT !.n = f.n - 1]
            moveCount == f.mc + 1
        IN /\ (rootNode \/ f.n > 0)
           /\ (rootNode /\ f.mc = 0 => m = ttMove)
           /\ (rootNode => kind = "make")
           /\ (kind = "prune" => f.had)
           /\ IF kind = "prune"
              THEN /\ Continue(t, [f1 EXCEPT !.mc = moveCount])
                   /\ obs' = Label(t, "step13", f, FALSE, FALSE, 0, FALSE, FALSE)
              ELSE IF kind = "illegal"
              THEN /\ Continue(t, f1)
                   /\ obs' = Label(t, "step13", f, FALSE, FALSE, 0, FALSE, FALSE)
              ELSE \E givesCheck \in BOOLEAN, ext \in {DEPTH_ZERO, ONE_PLY},
                      quietOrMcp \in BOOLEAN, r \in 0 .. 1 :
                     LET newDepth == f.depth - ONE_PLY + ext
                         lmr == /\ f.depth >= 3 * ONE_PLY
                                /\ moveCount > 1
                                /\ quietOrMcp
                         d == IF lmr THEN Max(newDepth - r * ONE_PLY, ONE_PLY) ELSE 0
                         stage == IF lmr THEN "lmr"
                                  ELSE IF f.NT = "NonPV" \/ moveCount > 1 THEN "fd"
                                  ELSE "pv"
                     IN /\ (ext = ONE_PLY => givesCheck)
                        /\ (~lmr => r = 0)
                        /\ (f.depth < 3 * ONE_PLY \/ moveCount = 1 => quietOrMcp)
                        /\ Call(t, [f1 EXCEPT !.mc = moveCount, !.pc = "childRet",
                                              !.stage = stage, !.nd = newDepth,
                                              !.d = d, !.gc = givesCheck,
                                              !.lateMoves =
                                                 @ + (IF stop THEN 1 ELSE 0)],
                                ChildFrame(stage, f.ply + 1, newDepth, d, givesCheck))
                        /\ obs' = Label(t, "step14", f, FALSE, FALSE, 0, FALSE, TRUE)
    /\ UNCHANGED << stop, ponder, stopOnPonderhit, Limits, MultiPV, rootPos,
                    nThreads, mainPc, callsCnt, searching, rootDepth,
                    completedDepth, PVIdx, rootMoves, out, gui, unit >>

\* Mutant: step 18 looks at Threads.stop at the root only.
search_step18_rootonly(f, stopped) == stopped /\ f.ply = 0

\* Mutant: step 18 does not look at Threads.stop.
search_step18_nostop(f, stopped) == FALSE

\* 928: the test of step 18 in the invocation f
search_step18(f, stopped) == stopped

\* Mutant: only the first move of the root keeps its value.
NewBestAtRoot_firstOnly(moveCount, ga) == moveCount = 1

\* 949: PV move or new best move? ga: value > alpha
NewBestAtRoot(moveCount, ga) == moveCount = 1 \/ ga

\* 893-986: a search of the move has returned value. Either the next search
\* of the move is called (step 16, PV search), or the move is undone and
\* steps 18 and 19 run: the stop exit, the update of the root move and of
\* bestValue, alpha and the fail high. ga: value > alpha; lb: value < beta;
\* gb: value > bestValue; tail: (ss+1)->pv.
search_child_ret(t) ==
    /\ InFrame(t, "search", "childRet")
    /\ \E ga \in BOOLEAN, lb \in BOOLEAN :
        LET f == Top(t)
            rootNode == f.NT = "PV" /\ f.ply = 0
            pvCond == f.NT = "PV" /\ (f.mc = 1 \/ (ga /\ (rootNode \/ lb)))
            next == IF f.stage = "lmr" /\ ga /\ f.d # f.nd THEN "fd"
                    ELSE IF f.stage # "pv" /\ pvCond THEN "pv"
                    ELSE "none"
            i == FindMove(rootMoves[t], f.cur)
        IN /\ rootNode => /\ ga = (f.value > f.alpha)
                          /\ lb = (f.value < f.beta)
           /\ IF next # "none"
              THEN /\ Call(t, [f EXCEPT !.stage = next,
                                        !.taint = IF rootNode THEN FALSE ELSE @],
                           ChildFrame(next, f.ply + 1, f.nd, f.d, f.gc))
                   /\ obs' = Label(t, "step16", f, FALSE, FALSE, 0, FALSE, FALSE)
                   /\ UNCHANGED rootMoves
              ELSE IF search_step18(f, stop)
              THEN /\ ga /\ lb
                   /\ Return(t, VALUE_ZERO, TRUE)
                   /\ obs' = Label(t, "step18", f, FALSE, TRUE, VALUE_ZERO, FALSE, FALSE)
                   /\ UNCHANGED rootMoves
              ELSE \E gb \in BOOLEAN, tail \in (IF rootNode THEN {<< >>, << 1 >>}
                                                ELSE {<< >>}) :
                     LET failHigh == gb /\ ga /\ ~(f.NT = "PV" /\ lb)
                         f1 == [f EXCEPT !.pc = IF failHigh THEN "finish" ELSE "loop",
                                         !.stage = "-", !.nd = 0, !.d = 0,
                                         !.gc = FALSE]
                     IN /\ rootNode => gb = (f.value > f.bestValue)
                        /\ IF rootNode
                           THEN /\ rootMoves' = [rootMoves EXCEPT ![t][i] =
                                      IF NewBestAtRoot(f.mc, ga)
                                      THEN [@ EXCEPT !.score = f.value,
                                                     !.pv = << f.cur >> \o tail]
                                      ELSE [@ EXCEPT !.score = -VALUE_INFINITE]]
                                /\ Continue(t, [f1 EXCEPT
                                      !.bestValue = IF gb THEN f.value ELSE @,
                                      !.alpha = IF gb /\ ga /\ lb THEN f.value ELSE @])
                                /\ obs' = Label(t, "step19", f, FALSE, FALSE, 0,
                                                TRUE, FALSE)
                           ELSE /\ Continue(t, f1)
                                /\ obs' = Label(t, "step19", f, FALSE, FALSE, 0,
                                                FALSE, FALSE)
                                /\ UNCHANGED rootMoves
    /\ UNCHANGED << stop, ponder, stopOnPonderhit, Limits, MultiPV, rootPos,
                    nThreads, mainPc, callsCnt, searching, rootDepth,
                    completedDepth, PVIdx, out, gui, unit >>

\* no move is left for the move loop of f
LoopDone(f) ==
    \/ f.pc = "finish"
    \/ f.pc = "loop" /\ (IF f.ply = 0 /\ f.fn = "search" THEN f.todo = {} ELSE f.n = 0)

\* 996-1035: step 20 and the store of the result. The stop flag is not
\* looked at (988-994). v: bestValue of a node other than the root.
search_finish(t) ==
    /\ thPc[t] = "inSearch"
    /\ stk[t] # << >>
    /\ Top(t).fn = "search"
    /\ LoopDone(Top(t))
    /\ \E v \in Vals :
        LET f == Top(t)
            rootNode == f.NT = "PV" /\ f.ply = 0
            bestValue == IF f.mc = 0
                         THEN IF f.excluded THEN f.alpha
                              ELSE IF f.inCheck THEN mated_in(f.ply) ELSE VALUE_DRAW
                         ELSE IF rootNode THEN f.bestValue ELSE v
        IN /\ (f.mc = 0 \/ rootNode => v = 70)
           /\ Return(t, bestValue, f.taint)
           /\ obs' = Label(t, "step20", f, ~f.excluded, TRUE, bestValue, FALSE, FALSE)
    /\ UNCHANGED << stop, ponder, stopOnPonderhit, Limits, MultiPV, rootPos,
                    nThreads, mainPc, callsCnt, searching, rootDepth,
                    completedDepth, PVIdx, rootMoves, out, gui, unit >>

\* ------------------------------------------------------------------------
\* qsearch<NT, InCheck> (search.cpp 1043-1244)
\* ------------------------------------------------------------------------
\* 1063-1143: up to the move picker. Threads.stop is not read. draw: is_draw;
\* cut: "tt" the TT entry cuts off, "pat" the stand pat value is at least
\* beta; v: the value of evaluate or of the TT; k: the moves of the picker.
qsearch_enter(t) ==
    /\ InFrame(t, "qsearch", "enter")
    /\ \E draw \in BOOLEAN :
        LET f == Top(t)
        IN IF (~f.same /\ draw) \/ f.ply >= MAX_PLY
           THEN \E v \in (IF f.ply >= MAX_PLY /\ ~f.inCheck THEN Vals
                           ELSE {VALUE_DRAW}) :
                   /\ Return(t, v, f.taint)
                   /\ obs' = Label(t, "qdraw", f, FALSE, TRUE, v, FALSE, FALSE)
           ELSE \E cut \in {"no", "tt", "pat"} :
                   IF cut = "tt"
                   THEN /\ f.NT = "NonPV"
                        /\ \E v \in Vals :
                              /\ Return(t, v, f.taint)
                              /\ obs' = Label(t, "qttcut", f, FALSE, TRUE, v,
                                              FALSE, FALSE)
                   ELSE IF cut = "pat"
                   THEN /\ ~f.inCheck
                        /\ \E v \in Vals, ttHit \in BOOLEAN :
                              /\ Return(t, v, f.taint)
                              /\ obs' = Label(t, "qpat", f, ~ttHit, TRUE, v,
                                              FALSE, FALSE)
                   ELSE \E k \in MoveCounts(f) :
                          /\ Continue(t, [f EXCEPT !.pc = "loop", !.n = k])
                          /\ obs' = Label(t, "qeval", f, FALSE, FALSE, 0,
                                          FALSE, FALSE)
    /\ UNCHANGED << stop, ponder, stopOnPonderhit, Limits, MultiPV, rootPos,
                    nThreads, mainPc, callsCnt, searching, rootDepth,
                    completedDepth, PVIdx, rootMoves, out, gui, unit >>

\* 1146-1205: the next move of the qsearch loop. A move is pruned by futility
\* or SEE when not in check, and in check only once a value is known.
qsearch_next_move(t) ==
    /\ InFrame(t, "qsearch", "loop")
    /\ \E kind \in {"prune", "illegal", "make"}, givesCheck \in BOOLEAN :
        LET f == Top(t)
            f1 == [f EXCEPT !.n = f.n - 1]
        IN /\ f.n > 0
           /\ (kind = "prune" => ~f.inCheck \/ f.had)
           /\ (kind # "make" => ~givesCheck)
           /\ IF kind = "make"
              THEN /\ Call(t, [f1 EXCEPT !.pc = "qRet", !.mc = f.mc + 1],
                           Frame("qsearch", f.NT, f.ply + 1, f.depth - ONE_PLY,
                                 givesCheck, FALSE, FALSE))
                   /\ obs' = Label(t, "qmove", f, FALSE, FALSE, 0, FALSE, TRUE)
              ELSE /\ Continue(t, IF kind = "prune" THEN [f1 EXCEPT !.mc = f.mc + 1]
                                  ELSE f1)
                   /\ obs' = Label(t, "qskip", f, FALSE, FALSE, 0, FALSE, FALSE)
    /\ UNCHANGED << stop, ponder, stopOnPonderhit, Limits, MultiPV, rootPos,
                    nThreads, mainPc, callsCnt, searching, rootDepth,
                    completedDepth, PVIdx, rootMoves, out, gui, unit >>

\* 1206-1228: the child has returned; failHigh: the value is above alpha and
\* the node is not a PV node with value < beta.
qsearch_child_ret(t) ==
    /\ InFrame(t, "qsearch", "qRet")
    /\ \E failHigh \in BOOLEAN :
        LET f == Top(t)
        IN /\ Continue(t, [f EXCEPT !.pc = IF failHigh THEN "finish" ELSE "loop"])
           /\ obs' = Label(t, "qbest", f, FALSE, FALSE, 0, FALSE, FALSE)
    /\ UNCHANGED << stop, ponder, stopOnPonderhit, Limits, MultiPV, rootPos,
                    nThreads, mainPc, callsCnt, searching, rootDepth,
                    completedDepth, PVIdx, rootMoves, out, gui, unit >>

\* 1231-1243: checkmate, or the store and the return of bestValue (v).
qsearch_finish(t) ==
    /\ thPc[t] = "inSearch"
    /\ stk[t] # << >>
    /\ Top(t).fn = "qsearch"
    /\ LoopDone(Top(t))
    /\ \E v \in Vals :
        LET f == Top(t)
        IN IF f.inCheck /\ ~f.had
           THEN /\ v = 70
                /\ Return(t, mated_in(f.ply), f.taint)
                /\ obs' = Label(t, "qmate", f, FALSE, TRUE, mated_in(f.ply), FALSE, FALSE)
           ELSE /\ Return(t, v, f.taint)
                /\ obs' = Label(t, "qsave", f, TRUE, TRUE, v, FALSE, FALSE)
    /\ UNCHANGED << stop, ponder, stopOnPonderhit, Limits, MultiPV, rootPos,
                    nThreads, mainPc, callsCnt, searching, rootDepth,
                    completedDepth, PVIdx, rootMoves, out, gui, unit >>

\* ------------------------------------------------------------------------
\* The engine and the GUI
\* ------------------------------------------------------------------------
ThreadStep(t) ==
    \/ Thread_search_begin(t)
    \/ Thread_search_loop(t)
    \/ Thread_search_aspRet(t)
    \/ Thread_search_pvEnd(t)
    \/ Thread_idle_loop(t)
    \/ search_enter(t)
    \/ search_razoring(t)
    \/ search_razoring_ret(t)
    \/ search_futility(t)
    \/ search_null(t)
    \/ search_null_ret(t)
    \/ search_verif_ret(t)
    \/ search_moves_loop(t)
    \/ search_next_move(t)
    \/ search_child_ret(t)
    \/ search_finish(t)
    \/ qsearch_enter(t)
    \/ qsearch_next_move(t)
    \/ qsearch_child_ret(t)
    \/ qsearch_finish(t)

Next ==
    \/ Go
    \/ GuiStop
    \/ GuiPonderhit
    \/ MainThread_search_start
    \/ MainThread_search_finished
    \/ MainThread_search_wait
    \/ MainThread_search_raise
    \/ MainThread_search_join
    \/ MainThread_search_select
    \/ MainThread_search_output
    \/ \E t \in AllThreads : ThreadStep(t)

Spec == Init /\ [][Next]_vars

\* ------------------------------------------------------------------------
\* Cancellation (C1, C2, C6)
\* ------------------------------------------------------------------------
SearchSteps == {"step2", "step3", "ttcut", "step5", "step6", "step7", "step8",
                "step11", "step13", "step14", "step16", "step18", "step19",
                "step20"}

CheckInterval ==
    IF Limits.nodes > 0 THEN Min(CheckTimeCalls, Limits.nodes \div 1024)
    ELSE CheckTimeCalls

C3_NoBestmoveBeforeGui ==
    (out.printed /\ (ponder \/ Limits.infinite)) => gui # {}

\* C4: when the root position has legal moves, the first moves of the root
\* moves of every thread are the legal moves, each once, at every moment of the
\* search, and the move printed as bestmove is one of them.
C4_FirstMovesUnchanged ==
    rootPos.nMoves >= 1 =>
        /\ \A t \in AllThreads :
              /\ Len(rootMoves[t]) = rootPos.nMoves
              /\ FirstMoves(rootMoves[t]) = 1 .. rootPos.nMoves
        /\ (out.printed => out.bestmove \in 1 .. rootPos.nMoves)

\* the second legal move was sorted to the front with a new pv tail and printed
C4_Witness ==
    /\ out.printed
    /\ rootPos.nMoves = 2
    /\ out.bestmove = 2
    /\ rootMoves[MainId][1].pv = << 2, 1 >>
    /\ rootMoves[MainId][2].pv[1] = 1

\* C7: when the main thread selects the best thread and prints, stop is set
\* and every worker has left Thread::search and gone back to sleep, so that
\* none can write its rootMoves or completedDepth.
C7_SelectAfterJoin ==
    mainPc \in {"select", "output"} =>
        /\ stop
        /\ \A w \in Workers :
              ~searching[w] /\ thPc[w] = "idle" /\ stk[w] = << >>

\* the main thread selects after a worker has completed an iteration
C7_Witness ==
    /\ mainPc = "select"
    /\ nThreads = 2
    /\ completedDepth[1] >= 1
    /\ rootMoves[1][1].score # -VALUE_INFINITE

\* C10: from the start of MainThread::search until bestmove is printed, no
\* step changes Threads.stop from true to false.
C10_StopMonotonic ==
    [][(stop /\ mainPc # "idle") => stop']_vars

\* the engine itself raised stop while the main thread was still searching
C10_Witness ==
    /\ stop
    /\ gui = {}
    /\ mainPc = "thinking"
    /\ thPc[MainId] = "inSearch"

\* ------------------------------------------------------------------------
\* A root position without legal moves (C12)
\* ------------------------------------------------------------------------
\* a search of a root position without legal moves is past lines 177-183
NoMovesSearch == rootPos.nMoves = 0 /\ mainPc \notin {"search"} /\ out # NoOutput

\* C12: when the root position has no legal move, MainThread::search records
\* the single root move MOVE_NONE, reports -VALUE_MATE in check and VALUE_DRAW
\* otherwise, starts no worker and no iterative deepening, does not print
\* bestmove before stop or ponderhit while pondering or in an infinite
\* search, and prints bestmove MOVE_NONE without a ponder move.
C12_NoLegalMoves ==
    NoMovesSearch =>
        /\ rootMoves[MainId] = << RootMove(MOVE_NONE) >>
        /\ out.info = (IF rootPos.inCheck THEN -VALUE_MATE ELSE VALUE_DRAW)
        /\ \A t \in AllThreads : /\ thPc[t] = "idle"
                                 /\ rootDepth[t] = DEPTH_ZERO
                                 /\ completedDepth[t] = DEPTH_ZERO
                                 /\ stk[t] = << >>
        /\ \A w \in Workers : ~searching[w]
        /\ (out.printed /\ gui = {}) => (~ponder /\ ~Limits.infinite)
        /\ out.printed => /\ out.bestmove = MOVE_NONE
                          /\ out.ponderMove = MOVE_NONE
                          /\ out.bestThread = MainId

\* bestmove has been printed for a position in check without legal moves,
\* searched with two threads while pondering, after a stop of the GUI
C12_Witness ==
    /\ NoMovesSearch
    /\ out.printed
    /\ rootPos.inCheck
    /\ out.info = -VALUE_MATE
    /\ nThreads = 2
    /\ ponder
    /\ "stop" \in gui

\* bestmove has been printed for a stalemate searched on the clock
C12_WitnessDraw ==
    /\ NoMovesSearch
    /\ out.printed
    /\ ~rootPos.inCheck
    /\ out.info = VALUE_DRAW
    /\ gui = {}

\* ------------------------------------------------------------------------
\* The depth limit (C11)
\* ------------------------------------------------------------------------
\* C11 as stated: with Limits.depth = D > 0 no thread, main or helper, is in a
\* root search of an iteration with rootDepth / ONE_PLY > D.
C11_NoThreadBeyondDepth ==
    Limits.depth > 0 =>
        \A t \in AllThreads :
            thPc[t] = "inSearch" => rootDepth[t] \div ONE_PLY <= Limits.depth

\* C11: with Limits.depth = D > 0 the main thread is never in a root search of
\* an iteration with rootDepth / ONE_PLY > D. (A helper thread does not test
\* the limit: it goes on to deeper iterations until Threads.stop is set.)
C11_MainWithinDepth ==
    Limits.depth > 0 =>
        (thPc[MainId] = "inSearch" =>
            rootDepth[MainId] \div ONE_PLY <= Limits.depth)

\* the main thread has completed the iteration of the limit and left the loop
\* at the next depth with stop unset
C11_Witness ==
    /\ Limits.depth > 0
    /\ thPc[MainId] = "ret"
    /\ completedDepth[MainId] = Limits.depth * ONE_PLY
    /\ rootDepth[MainId] = (Limits.depth + 1) * ONE_PLY
    /\ ~stop

\* ------------------------------------------------------------------------
\* The root moves when the aspiration loop ends (C26)
\* ------------------------------------------------------------------------
\* the aspiration loop of thread t for PV line PVIdx ends at this step with
\* stop unset and bestValue strictly inside the window
AspirationEndsInside(t) ==
    /\ thPc[t] = "aspRet"
    /\ thPc'[t] = "pvEnd"
    /\ ~stop
    /\ asp[t].alpha < asp[t].bestValue
    /\ asp[t].bestValue < asp[t].beta

\* C26: when the aspiration loop for PV line PVIdx ends without stop and with
\* bestValue strictly inside the window, then after the stable sort
\* rootMoves[PVIdx].score is bestValue and no other root move of the search
\* has a greater score; and no step of the search or of the sort changes the
\* entries rootMoves[0 .. PVIdx-1].
C26_BestMoveInFront ==
    [][\A t \in AllThreads :
        /\ AspirationEndsInside(t) =>
              /\ rootMoves'[t][PVIdx[t] + 1].score = asp[t].bestValue
              /\ \A j \in (PVIdx[t] + 2) .. Len(rootMoves'[t]) :
                    rootMoves'[t][j].score <= asp[t].bestValue
        /\ (thPc[t] \in {"inSearch", "aspRet"} /\ PVIdx'[t] = PVIdx[t]) =>
              SubSeq(rootMoves'[t], 1, PVIdx[t]) = SubSeq(rootMoves[t], 1, PVIdx[t])
      ]_vars

\* C26 witness: the search of the second PV line has ended inside its window;
\* its move is in rootMoves[1] with bestValue, behind the first PV line.
C26_Witness ==
    /\ thPc[MainId] = "pvEnd"
    /\ ~stop
    /\ PVIdx[MainId] = 1
    /\ Len(rootMoves[MainId]) >= 2
    /\ asp[MainId].alpha < asp[MainId].bestValue
    /\ asp[MainId].bestValue < asp[MainId].beta
    /\ rootMoves[MainId][2].score = asp[MainId].bestValue
    /\ rootMoves[MainId][1].score > -VALUE_INFINITE

\* the second root move of the first PV line was better than the first
C26_WitnessSecondBest ==
    /\ thPc[MainId] = "pvEnd"
    /\ ~stop
    /\ PVIdx[MainId] = 0
    /\ Len(rootMoves[MainId]) >= 2
    /\ asp[MainId].alpha < asp[MainId].bestValue
    /\ asp[MainId].bestValue < asp[MainId].beta
    /\ rootMoves[MainId][1].score = asp[MainId].bestValue
    /\ rootMoves[MainId][1].pv[1] = 2
    /\ rootMoves[MainId][2].score > -VALUE_INFINITE

\* ------------------------------------------------------------------------
\* completedDepth of a thread (search.cpp 278-290, 374-375)
\* ------------------------------------------------------------------------
\* the step is the start of a new search, which resets every thread
StartsSearch == mainPc = "idle" /\ mainPc' = "search"

\* the step of thread t that leaves the MultiPV loop with every line searched
\* and Threads.stop unset
IterationCompleted(t) ==
    /\ thPc[t] = "pvEnd"
    /\ thPc'[t] = "loop"
    /\ ~stop
    /\ PVIdx'[t] = multiPV(t)
    /\ rootDepth'[t] = rootDepth[t]

\* C30: within one search a step changes a thread's completedDepth only when
\* it ends an iteration whose MultiPV lines were all searched with
\* Threads.stop still unset, and then sets it to that rootDepth; a skipped
\* or stopped iteration leaves it alone; completedDepth never decreases and
\* never exceeds the thread's rootDepth.
C30_CompletedDepthOnlyWhenFinished ==
    [][\A t \in AllThreads :
          /\ (~StartsSearch /\ completedDepth'[t] # completedDepth[t])
                => /\ IterationCompleted(t)
                   /\ completedDepth'[t] = rootDepth[t]
          /\ ~StartsSearch => completedDepth'[t] >= completedDepth[t]
          /\ completedDepth[t] <= rootDepth[t]
          /\ completedDepth'[t] <= rootDepth'[t]]_vars

\* a thread completed a depth of two PV lines after an earlier depth
C30_Witness ==
    \E t \in AllThreads :
       /\ thPc[t] = "loop"
       /\ multiPV(t) = 2
       /\ PVIdx[t] = 2
       /\ rootDepth[t] >= 2 * ONE_PLY
       /\ completedDepth[t] = rootDepth[t]

\* an iteration interrupted by stop left completedDepth at the depth before
C30_WitnessStopped ==
    \E t \in AllThreads :
       /\ thPc[t] = "loop"
       /\ stop
       /\ completedDepth[t] >= ONE_PLY
       /\ completedDepth[t] < rootDepth[t]

\* a helper thread skipped a depth: with Threads.stop unset it is past the
\* depth it completed
C30_WitnessSkipped ==
    \E t \in AllThreads :
       /\ t # MainId
       /\ thPc[t] = "loop"
       /\ ~stop
       /\ completedDepth[t] >= ONE_PLY
       /\ rootDepth[t] > completedDepth[t]

\* ------------------------------------------------------------------------
\* value_to_tt and value_from_tt applied to drawn values (SpecTT)
\* ------------------------------------------------------------------------
Near == 3

\* the scores within Near of a boundary of the Value type
NearValues(c) == {v \in (c - Near) .. (c + Near) :
                     -VALUE_INFINITE <= v /\ v <= VALUE_NONE}

TTValues ==
    NearValues(-VALUE_INFINITE) \cup NearValues(VALUE_MATED_IN_MAX_PLY)
        \cup NearValues(VALUE_ZERO) \cup NearValues(VALUE_KNOWN_WIN)
        \cup NearValues(VALUE_MATE_IN_MAX_PLY) \cup NearValues(VALUE_MATE)
        \cup {-70, 70}

TTPlies == (0 .. Near) \cup ((MAX_PLY - Near) .. MAX_PLY)

InitTT ==
    /\ InitSys
    /\ \E v \in TTValues, ply \in TTPlies :
         unit = [op |-> "tt", stage |-> "value", v |-> v, ply |-> ply,
                 tt |-> VALUE_NONE, back |-> VALUE_NONE]

\* tte->save(posKey, value_to_tt(v, ss->ply), ..)
TT_save ==
    /\ unit.op = "tt"
    /\ unit.stage = "value"
    /\ unit' = [unit EXCEPT !.stage = "saved", !.tt = value_to_tt(unit.v, unit.ply)]
    /\ UNCHANGED sysVars

\* ttValue = value_from_tt(tte->value(), ss->ply)
TT_probe ==
    /\ unit.op = "tt"
    /\ unit.stage = "saved"
    /\ unit' = [unit EXCEPT !.stage = "probed", !.back = value_from_tt(unit.tt, unit.ply)]
    /\ UNCHANGED sysVars

NextTT == TT_save \/ TT_probe

SpecTT == InitTT /\ [][NextTT]_vars

\* C9 as stated: for every v other than VALUE_NONE and every ply,
\* value_from_tt(value_to_tt(v, ply), ply) = v.
C9_RoundTrip_AllValues ==
    (unit.op = "tt" /\ unit.stage = "probed" /\ unit.v # VALUE_NONE)
        => unit.back = unit.v

\* C9: for every v other than VALUE_NONE and every ply >= 0 such that
\* value_to_tt(v, ply) is not VALUE_NONE, value_from_tt(value_to_tt(v, ply), ply)
\* gives v back. (The scores of a search at ply, which lie within
\* mated_in(ply) .. mate_in(ply), all satisfy this.)
C9_RoundTrip ==
    (unit.op = "tt" /\ unit.stage = "probed" /\ unit.v # VALUE_NONE
        /\ unit.tt # VALUE_NONE)
        => unit.back = unit.v

\* a mate score was shifted by a positive ply on the way in and came back
C9_Witness ==
    /\ unit.op = "tt" /\ unit.stage = "probed"
    /\ unit.v >= VALUE_MATE_IN_MAX_PLY /\ unit.v <= mate_in(unit.ply)
    /\ unit.ply > 0
    /\ unit.tt = unit.v + unit.ply
    /\ unit.back = unit.v

\* ------------------------------------------------------------------------
\* The best thread loop applied to drawn thread results (SpecSelect)
\* ------------------------------------------------------------------------
SelThreads == 3
SelDepths == 2

\* rootMoves[0].score of a thread: a loss, a win, two proven mates
SelScores == {-70, 70, mate_in(5), mate_in(3)}

InitSelect ==
    /\ InitSys
    /\ \E n \in 1 .. SelThreads, mpv \in 1 .. 2, first \in {MOVE_NONE, 1},
          cd \in [0 .. (SelThreads - 1) -> 0 .. SelDepths],
          sc \in [0 .. (SelThreads - 1) -> SelScores] :
         /\ \A th \in n .. (SelThreads - 1) : cd[th] = 0 /\ sc[th] = -70
         /\ unit = [op |-> "select", stage |-> "joined", n |-> n, mpv |-> mpv,
                    first |-> first, cd |-> cd, sc |-> sc, best |-> MainId]

\* 217-231 on the drawn results
Select_best ==
    /\ unit.op = "select"
    /\ unit.stage = "joined"
    /\ unit' = [unit EXCEPT !.stage = "selected",
                            !.best = BestThread(unit.n, unit.mpv, unit.first,
                                                unit.cd, unit.sc)]
    /\ UNCHANGED sysVars

\* 233-244: the selected thread's move is printed
Select_print ==
    /\ unit.op = "select"
    /\ unit.stage = "selected"
    /\ unit' = [unit EXCEPT !.stage = "printed"]
    /\ UNCHANGED sysVars

NextSelect == Select_best \/ Select_print

SpecSelect == InitSelect /\ [][NextSelect]_vars

\* C8: the thread finally selected is main, or a worker whose score is
\* strictly greater than main's and whose completedDepth is at least main's
\* or whose score is at least VALUE_MATE_IN_MAX_PLY; a worker is selected only
\* when MultiPV is 1 and main's best move is not MOVE_NONE.
C8_BestThread ==
    (unit.op = "select" /\ unit.stage # "joined" /\ unit.best # MainId)
        => /\ unit.best \in 1 .. (unit.n - 1)
           /\ unit.sc[unit.best] > unit.sc[MainId]
           /\ \/ unit.cd[unit.best] >= unit.cd[MainId]
              \/ unit.sc[unit.best] >= VALUE_MATE_IN_MAX_PLY
           /\ unit.mpv = 1
           /\ unit.first # MOVE_NONE

\* the last of three threads took over from a shallower thread that had taken
\* over from main with a mate score
C8_Witness ==
    /\ unit.op = "select" /\ unit.stage = "selected"
    /\ unit.n = 3
    /\ unit.best = 2
    /\ unit.cd[1] < unit.cd[MainId]
    /\ unit.cd[2] < unit.cd[MainId]
    /\ unit.sc[1] > unit.sc[MainId]
    /\ unit.sc[2] > unit.sc[1]

\* ------------------------------------------------------------------------
\* The arguments of every call of search and qsearch (SpecCalls)
\* ------------------------------------------------------------------------
razor_margin == 600

MaxCallPly == 3
MaxQDepth == 2
MaxReduction == 2
MaxResearch == 3

\* the scores a search returns, evaluate gives or the TT holds
CallScores == {-VALUE_MATE, -VALUE_MATE + 1, -VALUE_KNOWN_WIN, -razor_margin,
               -1, 0, 1, razor_margin, VALUE_KNOWN_WIN, VALUE_MATE - 1,
               VALUE_MATE}

\* rootDepth of the iteration: the depths at which the steps of search begin
\* to apply, and the last depth of the iterative deepening loop (279)
RootDepths == {1, 3, 5, 6, 9, DEPTH_MAX - ONE_PLY}

\* An invocation with its arguments. excluded: ss->excludedMove is set;
\* tries: the searches of the aspiration loop so far (root call only).
CallNode(site, fn, nt, ply, alpha, beta, depth, cutNode, skipEarly) ==
    [op |-> "call", site |-> site, fn |-> fn, NT |-> nt, ply |-> ply,
     alpha |-> alpha, beta |-> beta, depth |-> depth, cutNode |-> cutNode,
     skipEarly |-> skipEarly, excluded |-> FALSE,
     asp |-> IdleAsp, tries |-> 0]

\* 319: the root call with the window a at depth d
RootCall(a, d, tries) ==
    [CallNode("root", "search", "PV", 0, a.alpha, a.beta, d, FALSE, FALSE)
        EXCEPT !.asp = a, !.tries = tries]

\* 494-498: step 3, mate distance pruning, narrows the window of a node other
\* than the root
Step3(n) ==
    IF n.NT = "PV" /\ n.ply = 0
    THEN [alpha |-> n.alpha, beta |-> n.beta]
    ELSE [alpha |-> Max(mated_in(n.ply), n.alpha),
          beta |-> Min(mate_in(n.ply + 1), n.beta)]

\* 588-592: the qsearch of razoring on the window w of n
RazoringCall(n, w) ==
    IF n.depth <= ONE_PLY
    THEN CallNode("razoring", "qsearch", "NonPV", n.ply, w.alpha, w.alpha + 1,
                  DEPTH_ZERO, FALSE, FALSE)
    ELSE LET ralpha == w.alpha - razor_margin
         IN CallNode("razoring", "qsearch", "NonPV", n.ply, ralpha, ralpha + 1,
                     DEPTH_ZERO, FALSE, FALSE)

\* 620-621: the null move search at depth nd = depth - R
NullMoveCall(n, w, nd) ==
    IF nd < ONE_PLY
    THEN CallNode("null", "qsearch", "NonPV", n.ply + 1, -w.beta, -w.beta + 1,
                  DEPTH_ZERO, FALSE, FALSE)
    ELSE CallNode("null", "search", "NonPV", n.ply + 1, -w.beta, -w.beta + 1,
                  nd, ~n.cutNode, TRUE)

\* 638-639: the verification search at depth nd = depth - R
VerificationCall(n, w, nd) ==
    IF nd < ONE_PLY
    THEN CallNode("verification", "qsearch", "NonPV", n.ply, w.beta - 1, w.beta,
                  DEPTH_ZERO, FALSE, FALSE)
    ELSE CallNode("verification", "search", "NonPV", n.ply, w.beta - 1, w.beta,
                  nd, FALSE, TRUE)

\* 655-669: the search of a capture of ProbCut
ProbCutCall(n, w) ==
    LET rbeta == Min(w.beta + 200, VALUE_INFINITE)
    IN CallNode("probcut", "search", "NonPV", n.ply + 1, -rbeta, -rbeta + 1,
                n.depth - 4 * ONE_PLY, ~n.cutNode, FALSE)

\* 681-682: internal iterative deepening
IIDCall(n, w) ==
    LET d == (CDiv(3 * n.depth, 4 * ONE_PLY) - 2) * ONE_PLY
    IN CallNode("iid", "search", n.NT, n.ply, w.alpha, w.beta, d, n.cutNode, TRUE)

\* Mutant: rBeta is not kept above -VALUE_MATE.
SingularBeta_noclamp(ttValue, depth) == ttValue - 2 * (depth \div ONE_PLY)

\* 758: rBeta of the singular extension search
SingularBeta(ttValue, depth) ==
    Max(ttValue - 2 * (depth \div ONE_PLY), -VALUE_MATE)

\* 758-761: the singular extension search, with the ttMove excluded
SingularCall(n, ttValue) ==
    LET rBeta == SingularBeta(ttValue, n.depth)
        d == (n.depth \div (2 * ONE_PLY)) * ONE_PLY
    IN [CallNode("singular", "search", "NonPV", n.ply, rBeta - 1, rBeta, d,
                 n.cutNode, TRUE) EXCEPT !.excluded = TRUE]

\* 889-891: the reduced search of step 15 with the running alpha a
LMRCall(n, a, newDepth, r) ==
    LET d == Max(newDepth - r, ONE_PLY)
    IN CallNode("lmr", "search", "NonPV", n.ply + 1, -(a + 1), -a, d, TRUE, FALSE)

\* 900-903: the full depth search of step 16
FullDepthCall(n, a, newDepth) ==
    IF newDepth < ONE_PLY
    THEN CallNode("fulldepth", "qsearch", "NonPV", n.ply + 1, -(a + 1), -a,
                  DEPTH_ZERO, FALSE, FALSE)
    ELSE CallNode("fulldepth", "search", "NonPV", n.ply + 1, -(a + 1), -a,
                  newDepth, ~n.cutNode, FALSE)

\* 913-916: the PV search of a PV node
PVCall(n, a, beta, newDepth) ==
    IF newDepth < ONE_PLY
    THEN CallNode("pv", "qsearch", "PV", n.ply + 1, -beta, -a, DEPTH_ZERO,
                  FALSE, FALSE)
    ELSE CallNode("pv", "search", "PV", n.ply + 1, -beta, -a, newDepth,
                  FALSE, FALSE)

\* 1204-1205: the search of a move of qsearch
QsearchCall(n, a) ==
    CallNode("qsearch", "qsearch", n.NT, n.ply + 1, -n.beta, -a,
             n.depth - ONE_PLY, FALSE, FALSE)

\* 971-972, 1132-1133, 1227-1228: alpha when a move is searched: the alpha of
\* the window w, or at a PV node a value of an earlier move or of the stand
\* pat inside the window
RunningAlpha(n, w) ==
    {w.alpha} \cup (IF n.NT = "PV"
                    THEN {v \in CallScores : w.alpha < v /\ v < w.beta}
                    ELSE {})

\* the root call of an iteration: the window of lines 307-312 for a previous
\* score, or the whole range below depth 5
InitCalls ==
    /\ InitSys
    /\ \E d \in RootDepths, prev \in CallScores \cup {-VALUE_INFINITE} :
         LET rm == << [RootMove(1) EXCEPT !.previousScore = prev] >>
         IN unit = RootCall(Window(IdleAsp, rm, 0, d), d, 1)

\* the invocation n is a search() that has passed step 3 with the window w
InSearch(n, w) ==
    /\ n.op = "call"
    /\ n.fn = "search"
    /\ w = Step3(n)
    /\ w.alpha < w.beta

\* 319-361: the root search returned bestValue outside the window
Calls_aspiration ==
    /\ unit.op = "call"
    /\ unit.site = "root"
    /\ unit.tries < MaxResearch
    /\ \E bestValue \in CallScores :
         LET a == [unit.asp EXCEPT !.bestValue = bestValue]
         IN /\ (bestValue <= a.alpha \/ bestValue >= a.beta)
            /\ unit' = RootCall(Widen(a), unit.depth, unit.tries + 1)
    /\ UNCHANGED sysVars

\* 583-592
Calls_razoring ==
    /\ LET n == unit
           w == Step3(n)
       IN /\ InSearch(n, w)
          /\ ~n.skipEarly
          /\ n.NT = "NonPV"
          /\ n.depth < 4 * ONE_PLY
          /\ \E eval \in CallScores : eval + razor_margin <= w.alpha
          /\ unit' = RazoringCall(n, w)
    /\ UNCHANGED sysVars

\* 604-621; gain: min((eval - beta) / PawnValueMg, 3)
Calls_null ==
    /\ \E gain \in 0 .. 3 :
         LET n == unit
             w == Step3(n)
         IN /\ InSearch(n, w)
            /\ ~n.skipEarly
            /\ n.NT = "NonPV"
            /\ n.ply < MaxCallPly
            /\ \E eval \in CallScores : eval >= w.beta
            /\ unit' = NullMoveCall(n, w, n.depth - NullReduction(n.depth, gain))
    /\ UNCHANGED sysVars

\* 623-639: nullValue >= beta and no return at 631
Calls_verification ==
    /\ \E gain \in 0 .. 3 :
         LET n == unit
             w == Step3(n)
         IN /\ InSearch(n, w)
            /\ ~n.skipEarly
            /\ n.NT = "NonPV"
            /\ \E eval \in CallScores : eval >= w.beta
            /\ ~(Abs(w.beta) < VALUE_KNOWN_WIN /\ n.depth < 12 * ONE_PLY)
            /\ unit' = VerificationCall(n, w, n.depth - NullReduction(n.depth, gain))
    /\ UNCHANGED sysVars

\* 648-669
Calls_probcut ==
    /\ LET n == unit
           w == Step3(n)
       IN /\ InSearch(n, w)
          /\ ~n.skipEarly
          /\ n.NT = "NonPV"
          /\ n.ply < MaxCallPly
          /\ n.depth >= 5 * ONE_PLY
          /\ Abs(w.beta) < VALUE_MATE_IN_MAX_PLY
          /\ unit' = ProbCutCall(n, w)
    /\ UNCHANGED sysVars

\* 676-682
Calls_iid ==
    /\ LET n == unit
           w == Step3(n)
       IN /\ InSearch(n, w)
          /\ ~n.skipEarly
          /\ n.depth >= 6 * ONE_PLY
          /\ unit' = IIDCall(n, w)
    /\ UNCHANGED sysVars

\* 699-705, 754-761
Calls_singular ==
    /\ \E ttValue \in CallScores :
         LET n == unit
             w == Step3(n)
         IN /\ InSearch(n, w)
            /\ ~(n.NT = "PV" /\ n.ply = 0)
            /\ n.depth >= 8 * ONE_PLY
            /\ ~n.excluded
            /\ unit' = SingularCall(n, ttValue)
    /\ UNCHANGED sysVars

\* 770-771, 846-891
Calls_lmr ==
    /\ \E ext \in {DEPTH_ZERO, ONE_PLY}, r \in 0 .. MaxReduction :
         LET n == unit
             w == Step3(n)
         IN /\ InSearch(n, w)
            /\ n.ply < MaxCallPly
            /\ n.depth >= 3 * ONE_PLY
            /\ \E a \in RunningAlpha(n, w) :
                 unit' = LMRCall(n, a, n.depth - ONE_PLY + ext, r * ONE_PLY)
    /\ UNCHANGED sysVars

\* 770-771, 896-903
Calls_fulldepth ==
    /\ \E ext \in {DEPTH_ZERO, ONE_PLY} :
         LET n == unit
             w == Step3(n)
         IN /\ InSearch(n, w)
            /\ n.ply < MaxCallPly
            /\ \E a \in RunningAlpha(n, w) :
                 unit' = FullDepthCall(n, a, n.depth - ONE_PLY + ext)
    /\ UNCHANGED sysVars

\* 770-771, 908-916
Calls_pv ==
    /\ \E ext \in {DEPTH_ZERO, ONE_PLY} :
         LET n == unit
             w == Step3(n)
         IN /\ InSearch(n, w)
            /\ n.ply < MaxCallPly
            /\ n.NT = "PV"
            /\ \E a \in RunningAlpha(n, w) :
                 unit' = PVCall(n, a, w.beta, n.depth - ONE_PLY + ext)
    /\ UNCHANGED sysVars

\* 1132-1133, 1204-1205
Calls_qsearch ==
    /\ unit.op = "call"
    /\ unit.fn = "qsearch"
    /\ unit.ply < MaxCallPly
    /\ unit.depth > -MaxQDepth * ONE_PLY
    /\ \E a \in RunningAlpha(unit, unit) : unit' = QsearchCall(unit, a)
    /\ UNCHANGED sysVars

NextCalls ==
    \/ Calls_aspiration
    \/ Calls_razoring
    \/ Calls_null
    \/ Calls_verification
    \/ Calls_probcut
    \/ Calls_iid
    \/ Calls_singular
    \/ Calls_lmr
    \/ Calls_fulldepth
    \/ Calls_pv
    \/ Calls_qsearch

SpecCalls == InitCalls /\ [][NextCalls]_vars

\* C5: every invocation of search and qsearch, from the root call of the
\* aspiration loop down, is entered with -VALUE_INFINITE <= alpha < beta <=
\* VALUE_INFINITE, with alpha = beta - 1 when it is not a PV invocation, never
\* as a PV invocation with cutNode, with DEPTH_ZERO < depth < DEPTH_MAX for
\* search and with depth <= DEPTH_ZERO for qsearch.
C5_EntryPreconditions ==
    unit.op = "call" =>
        /\ -VALUE_INFINITE <= unit.alpha
        /\ unit.alpha < unit.beta
        /\ unit.beta <= VALUE_INFINITE
        /\ (unit.NT = "NonPV" => unit.alpha = unit.beta - 1)
        /\ ~(unit.NT = "PV" /\ unit.cutNode)
        /\ (unit.fn = "search" => DEPTH_ZERO < unit.depth /\ unit.depth < DEPTH_MAX)
        /\ (unit.fn = "qsearch" => unit.depth <= DEPTH_ZERO)

\* the singular extension search is entered with alpha at -VALUE_INFINITE,
\* rBeta having been raised to -VALUE_MATE
C5_Witness ==
    /\ unit.op = "call"
    /\ unit.site = "singular"
    /\ unit.alpha = -VALUE_INFINITE
    /\ unit.beta = -VALUE_MATE
    /\ unit.depth >= 4 * ONE_PLY

\* ------------------------------------------------------------------------
\* Eval::evaluate and evaluate_initiative applied to drawn positions (SpecEval)
\* ------------------------------------------------------------------------
Tempo == 20
NNUEThreshold1 == 682
NNUEThreshold2 == 176
PawnValueMg == 171
RookValueMg == 1282

\* a & b of two non-negative integers
RECURSIVE BitAnd(_, _)
BitAnd(a, b) ==
    IF a = 0 \/ b = 0 THEN 0
    ELSE (a % 2) * (b % 2) + 2 * BitAnd(a \div 2, b \div 2)

\* what evaluate reads of a position: the switch Eval::useNNUE, the results
\* of Evaluation::value() and NNUE::evaluate(), and the fields of pos
Position(nnueOn, value, nnue, npm, pawns, psq, rule50, nodes, ob) ==
    [useNNUE |-> nnueOn, value |-> value, NNUE |-> nnue,
     non_pawn_material |-> npm, count_PAWN |-> pawns, psq_score_eg |-> psq,
     rule50_count |-> rule50, nodes |-> nodes, opposite_bishops |-> ob]

EvalValues == {-200, -10, 10, 200}
NNUEValues == {-100, 100}
Materials == {0, 2 * RookValueMg, 5000}
PawnCounts == {1, 8}
PsqValues == {-1000, -43, 42, 1000}
Rule50Counts == {0, 50}
NodeCounts == {0, 1, 4, 8, 12}

\* 1040-1043: the network output scaled by the material, plus Tempo
adjusted_NNUE(pos) ==
    LET mat == pos.non_pawn_material + PawnValueMg * pos.count_PAWN
    IN CDiv(pos.NNUE * (679 + CDiv(mat, 32)), 1024) + Tempo

\* 1048: largePsq
LargePsq(pos) ==
    LET psq == Abs(pos.psq_score_eg)
        r50 == 16 + pos.rule50_count
    IN psq * 16 > (NNUEThreshold1 + CDiv(pos.non_pawn_material, 64)) * r50

\* Mutant: the classical evaluation is taken when some bit of 0xB is set.
Classical_bitsSet(pos) ==
    \/ LargePsq(pos)
    \/ /\ Abs(pos.psq_score_eg) > CDiv(PawnValueMg, 4)
       /\ BitAnd(pos.nodes, 11) # 0

\* 1049: classical = largePsq || (psq > PawnValueMg / 4 && !(nodes & 0xB))
Classical(pos) ==
    \/ LargePsq(pos)
    \/ /\ Abs(pos.psq_score_eg) > CDiv(PawnValueMg, 4)
       /\ ~(BitAnd(pos.nodes, 11) # 0)

\* 1053: strongClassical
StrongClassical(pos) ==
    pos.non_pawn_material < 2 * RookValueMg /\ pos.count_PAWN < 2

\* 1030-1070: Eval::evaluate. v is the value returned; path tells which
\* evaluator produced it.
evaluate(pos) ==
    IF ~pos.useNNUE
    THEN [v |-> pos.value + Tempo, path |-> "classical"]
    ELSE LET r50 == 16 + pos.rule50_count
             largePsq == LargePsq(pos)
             classical == Classical(pos)
             strongClassical == StrongClassical(pos)
             v == IF classical \/ strongClassical THEN pos.value
                  ELSE adjusted_NNUE(pos)
         IN IF /\ largePsq
               /\ ~strongClassical
               /\ \/ Abs(v) * 16 < NNUEThreshold2 * r50
                  \/ /\ pos.opposite_bishops
                     /\ Abs(v) * 16 <
                           (NNUEThreshold1 + CDiv(pos.non_pawn_material, 64)) * r50
                     /\ ~(BitAnd(pos.nodes, 11) # 0)
            THEN [v |-> adjusted_NNUE(pos), path |-> "nnue"]
            ELSE [v |-> v,
                  path |-> IF classical \/ strongClassical THEN "classical"
                           ELSE "nnue"]

\* a call of Eval::evaluate on a drawn position
Eval_evaluate ==
    /\ unit.op = "evaluate"
    /\ unit.stage = "call"
    /\ LET r == evaluate(unit.pos)
       IN unit' = [unit EXCEPT !.stage = "returned", !.v = r.v, !.path = r.path,
                               !.classical = Classical(unit.pos)]
    /\ UNCHANGED sysVars

InitEvaluate ==
    \E nnueOn \in BOOLEAN, value \in EvalValues, nnue \in NNUEValues,
       npm \in Materials, pawns \in PawnCounts, psq \in PsqValues,
       rule50 \in Rule50Counts, nodes \in NodeCounts, ob \in BOOLEAN :
        unit = [op |-> "evaluate", stage |-> "call",
                pos |-> Position(nnueOn, value, nnue, npm, pawns, psq, rule50,
                                 nodes, ob),
                v |-> VALUE_NONE, path |-> "-", classical |-> FALSE]

\* Score: a pair of a middlegame and an endgame value, added component-wise
make_score(mg, eg) == [mg |-> mg, eg |-> eg]
mg_value(s) == s.mg
eg_value(s) == s.eg
ScoreAdd(a, b) == make_score(a.mg + b.mg, a.eg + b.eg)

\* what evaluate_initiative reads besides eg: pe->pawn_asymmetry(), the file
\* distance of the kings less their rank distance, pos.count<PAWN>() and
\* whether there are pawns on both flanks
Asymmetries == {0, 8}
KingDistances == {-7, 0, 7}
InitiativePawns == {0, 8, 16}
MgValues == {-50, 0, 50}
EgValues == {-300, -20, -1, 0, 1, 20, 300}

\* 892
Initiative(asym, kingDistance, pawns, bothFlanks) ==
    8 * (asym + kingDistance - 17) + 12 * pawns
      + 16 * (IF bothFlanks THEN 1 ELSE 0)

\* Mutant: the bonus is not capped by the endgame value.
evaluate_initiative_nocap(eg, asym, kingDistance, pawns, bothFlanks) ==
    LET initiative == Initiative(asym, kingDistance, pawns, bothFlanks)
        sign == (IF eg > 0 THEN 1 ELSE 0) - (IF eg < 0 THEN 1 ELSE 0)
    IN make_score(0, sign * initiative)

\* 885-904: evaluate_initiative(eg)
evaluate_initiative(eg, asym, kingDistance, pawns, bothFlanks) ==
    LET initiative == Initiative(asym, kingDistance, pawns, bothFlanks)
        sign == (IF eg > 0 THEN 1 ELSE 0) - (IF eg < 0 THEN 1 ELSE 0)
        v == sign * Max(initiative, -Abs(eg))
    IN make_score(0, v)

\* 999: score += evaluate_initiative(eg_value(score))
Eval_initiative ==
    /\ unit.op = "initiative"
    /\ unit.stage = "call"
    /\ LET r == evaluate_initiative(eg_value(unit.score), unit.pawn_asymmetry,
                                    unit.kingDistance, unit.count_PAWN,
                                    unit.bothFlanks)
       IN unit' = [unit EXCEPT !.stage = "returned", !.ret = r,
                               !.after = ScoreAdd(unit.score, r)]
    /\ UNCHANGED sysVars

InitInitiative ==
    \E mg \in MgValues, eg \in EgValues, asym \in Asymmetries,
       kd \in KingDistances, pawns \in InitiativePawns, bf \in BOOLEAN :
        unit = [op |-> "initiative", stage |-> "call",
                score |-> make_score(mg, eg), pawn_asymmetry |-> asym,
                kingDistance |-> kd, count_PAWN |-> pawns, bothFlanks |-> bf,
                ret |-> make_score(0, 0), after |-> make_score(mg, eg)]

InitEval == InitSys /\ (InitEvaluate \/ InitInitiative)

NextEval ==
    \/ Eval_evaluate
    \/ Eval_initiative

SpecEval == InitEval /\ [][NextEval]_vars

\* C13 as stated: every value returned by Eval::evaluate includes Tempo: the
\* classical path returns Evaluation::value() + Tempo, with NNUE disabled and
\* when the wrapper selects the classical evaluation, and the NNUE path
\* returns the scaled network output plus Tempo.
C13_EveryValueIncludesTempo ==
    (unit.op = "evaluate" /\ unit.stage = "returned") =>
        /\ unit.path = "classical" => unit.v = unit.pos.value + Tempo
        /\ unit.path = "nnue" =>
             unit.v = CDiv(unit.pos.NNUE
                           * (679 + CDiv(unit.pos.non_pawn_material
                                         + PawnValueMg * unit.pos.count_PAWN, 32)),
                           1024) + Tempo

\* C14 as stated: classical is true exactly when largePsq holds, or |psq_eg| >
\* PawnValueMg / 4 and (nodes & 0xB) is not zero.
C14_ClassicalWhenBitsSet ==
    (unit.op = "evaluate" /\ unit.stage = "returned" /\ unit.pos.useNNUE) =>
        (unit.classical <=>
            \/ LargePsq(unit.pos)
            \/ /\ Abs(unit.pos.psq_score_eg) > CDiv(PawnValueMg, 4)
               /\ \E b \in {0, 1, 3} : (unit.pos.nodes \div 2^b) % 2 = 1)

\* C14: classical is true exactly when largePsq holds, or |psq_eg| >
\* PawnValueMg / 4 and (nodes & 0xB) is zero, that is bits 0, 1 and 3 of the
\* node counter are all clear.
C14_ClassicalWhenBitsClear ==
    (unit.op = "evaluate" /\ unit.stage = "returned" /\ unit.pos.useNNUE) =>
        (unit.classical <=>
            \/ LargePsq(unit.pos)
            \/ /\ Abs(unit.pos.psq_score_eg) > CDiv(PawnValueMg, 4)
               /\ \A b \in {0, 1, 3} : (unit.pos.nodes \div 2^b) % 2 = 0)

\* a small imbalance above PawnValueMg / 4 at a node count with bit 2 only:
\* the classical evaluation is selected and returned
C14_Witness ==
    /\ unit.op = "evaluate"
    /\ unit.stage = "returned"
    /\ unit.pos.useNNUE
    /\ ~LargePsq(unit.pos)
    /\ ~StrongClassical(unit.pos)
    /\ Abs(unit.pos.psq_score_eg) = 43
    /\ unit.pos.nodes = 4
    /\ unit.classical
    /\ unit.path = "classical"

\* the sign of a value
Sign(x) == IF x > 0 THEN 1 ELSE IF x < 0 THEN -1 ELSE 0

\* C15: the initiative correction changes the endgame component only: the
\* Score returned has a middlegame component of 0 and the endgame component
\* v = sign(eg) * max(initiative, -|eg|); eg + v is zero or has the sign of
\* eg, and v = 0 when eg = 0.
C15_InitiativeKeepsSign ==
    (unit.op = "initiative" /\ unit.stage = "returned") =>
        LET eg == unit.score.eg
            v == unit.ret.eg
            initiative == 8 * (unit.pawn_asymmetry + unit.kingDistance - 17)
                          + 12 * unit.count_PAWN
                          + (IF unit.bothFlanks THEN 16 ELSE 0)
        IN /\ unit.ret.mg = 0
           /\ unit.after.mg = unit.score.mg
           /\ unit.after.eg = eg + v
           /\ v = Sign(eg) * (IF initiative >= -Abs(eg) THEN initiative
                              ELSE -Abs(eg))
           /\ (eg + v = 0 \/ Sign(eg + v) = Sign(eg))
           /\ (eg = 0 => v = 0)

\* a negative initiative larger than a negative endgame value: the cap acts
\* and the endgame component becomes zero
C15_Witness ==
    /\ unit.op = "initiative"
    /\ unit.stage = "returned"
    /\ unit.score.eg = -20
    /\ unit.ret.eg = 20
    /\ unit.after.eg = 0
    /\ unit.after.mg = -50

\* ------------------------------------------------------------------------
\* perft applied to drawn game trees (SpecPerft)
\* ------------------------------------------------------------------------
MaxPerftDepth == 3
MaxBranch == 2

\* A position is the sequence of moves played from the root position. A game
\* tree gives the number of legal moves of every position: root at the root
\* position, and below it byFirst[n] after n moves the last of which was the
\* first legal move and byOther[n] after n moves the last of which was not.
GameTrees ==
    [root : 0 .. MaxBranch,
     byFirst : [1 .. MaxPerftDepth - 1 -> 0 .. MaxBranch],
     byOther : [1 .. MaxPerftDepth - 1 -> 0 .. MaxBranch]]

\* MoveList<LEGAL>(pos).size()
MoveListSize(tree, pos) ==
    IF pos = << >> THEN tree.root
    ELSE IF pos[Len(pos)] = 1 THEN tree.byFirst[Len(pos)]
    ELSE tree.byOther[Len(pos)]

RECURSIVE SeqSum(_)
SeqSum(q) == IF q = << >> THEN 0 ELSE q[1] + SeqSum(Tail(q))

\* Mutant: at depth 2 every move counts for one leaf.
RECURSIVE perft_leafOne(_, _, _, _)
perft_leafOne(Root, tree, pos, depth) ==
    LET leaf == depth = 2 * ONE_PLY
        cnt == [m \in 1 .. MoveListSize(tree, pos) |->
                  IF Root /\ depth <= ONE_PLY THEN 1
                  ELSE IF leaf THEN 1
                  ELSE perft_leafOne(FALSE, tree, Append(pos, m),
                                     depth - ONE_PLY).nodes]
    IN [nodes |-> SeqSum(cnt), printed |-> IF Root THEN cnt ELSE << >>]

\* 94-116: perft<Root>(pos, depth): nodes is the value returned, printed the
\* counts written after the root moves. do_move appends the move to the
\* position and undo_move takes it back.
RECURSIVE perft(_, _, _, _)
perft(Root, tree, pos, depth) ==
    LET leaf == depth = 2 * ONE_PLY
        cnt == [m \in 1 .. MoveListSize(tree, pos) |->
                  IF Root /\ depth <= ONE_PLY THEN 1
                  ELSE IF leaf THEN MoveListSize(tree, Append(pos, m))
                  ELSE perft(FALSE, tree, Append(pos, m), depth - ONE_PLY).nodes]
    IN [nodes |-> SeqSum(cnt), printed |-> IF Root THEN cnt ELSE << >>]

\* the number of sequences of d legal moves from pos, by plain recursion
RECURSIVE MoveSequences(_, _, _)
MoveSequences(tree, pos, d) ==
    IF d = 0 THEN 1
    ELSE SeqSum([m \in 1 .. MoveListSize(tree, pos) |->
                   MoveSequences(tree, Append(pos, m), d - 1)])

\* 164-169: with Limits.perft set MainThread::search runs perft<true> on the
\* root position, prints "Nodes searched" and returns.
MainThread_search_perft ==
    /\ unit.op = "perft"
    /\ unit.stage = "call"
    /\ LET r == perft(TRUE, unit.tree, << >>, unit.perft * ONE_PLY)
       IN unit' = [unit EXCEPT !.stage = "returned", !.nodes = r.nodes,
                               !.printed = r.printed]
    /\ UNCHANGED sysVars

\* "go perft d" is given again for the next depth on the same position
Perft_deeper ==
    /\ unit.op = "perft"
    /\ unit.stage = "returned"
    /\ unit.perft < MaxPerftDepth
    /\ unit' = [unit EXCEPT !.stage = "call", !.perft = unit.perft + 1,
                            !.nodes = 0, !.printed = << >>]
    /\ UNCHANGED sysVars

InitPerft ==
    /\ InitSys
    /\ \E tree \in GameTrees :
         unit = [op |-> "perft", stage |-> "call", tree |-> tree, perft |-> 1,
                 nodes |-> 0, printed |-> << >>]

NextPerft ==
    \/ MainThread_search_perft
    \/ Perft_deeper

SpecPerft == InitPerft /\ [][NextPerft]_vars

\* C16: perft<true>(pos, d) for d >= 1 returns the number of sequences of d
\* legal moves from pos, which is the sum of the counts printed for the root
\* moves, one count for each root move; the bulk count at depth 2 and the
\* root shortcut at depth 1 give the total of the plain recursion.
C16_PerftCountsSequences ==
    (unit.op = "perft" /\ unit.stage = "returned") =>
        /\ unit.nodes = MoveSequences(unit.tree, << >>, unit.perft)
        /\ unit.nodes = SeqSum(unit.printed)
        /\ Len(unit.printed) = unit.tree.root
        /\ \A m \in 1 .. Len(unit.printed) :
             unit.printed[m] = MoveSequences(unit.tree, << m >>, unit.perft - 1)

\* perft 3 of a tree whose subtrees differ: the first root move leads to two
\* replies and the other to one, and the count goes through the bulk count
\* below the root
C16_Witness ==
    /\ unit.op = "perft"
    /\ unit.stage = "returned"
    /\ unit.perft = 3
    /\ unit.tree.root = 2
    /\ unit.tree.byFirst[1] = 2
    /\ unit.tree.byOther[1] = 1
    /\ unit.tree.byFirst[2] = 1
    /\ unit.tree.byOther[2] = 2
    /\ unit.nodes = 4
    /\ unit.printed = << 3, 1 >>

\* ------------------------------------------------------------------------
\* The skip schedule of the helper threads over the depths (SpecSkip)
\* ------------------------------------------------------------------------
MaxIdx == 21
MaxGamePly == 8
MaxSkipDepth == 24

\* 279-289: the next iteration of the loop of thread idx: rootDepth is
\* incremented and the iteration is skipped or searched. run counts the
\* consecutive depths treated like this one, first tells that the run began
\* at depth 1, prevRun is the length of the run before (0 when there is none
\* or when it began at depth 1).
Skip_iteration ==
    /\ unit.op = "skip"
    /\ unit.rootDepth + ONE_PLY <= MaxSkipDepth
    /\ LET d == unit.rootDepth + ONE_PLY
           sk == SkipsDepth(unit.idx, d, unit.gamePly)
           same == unit.rootDepth > DEPTH_ZERO /\ sk = unit.skipped
       IN unit' = [unit EXCEPT
                     !.rootDepth = d,
                     !.skipped = sk,
                     !.run = IF same THEN unit.run + 1 ELSE 1,
                     !.first = unit.rootDepth = DEPTH_ZERO \/ (same /\ unit.first),
                     !.prevRun = IF same THEN unit.prevRun
                                 ELSE IF unit.first THEN 0 ELSE unit.run]
    /\ UNCHANGED sysVars

InitSkip ==
    /\ InitSys
    /\ \E idx \in 0 .. MaxIdx, gamePly \in 0 .. MaxGamePly :
         unit = [op |-> "skip", idx |-> idx, gamePly |-> gamePly,
                 rootDepth |-> DEPTH_ZERO, skipped |-> FALSE, run |-> 0,
                 first |-> TRUE, prevRun |-> 0]

NextSkip == Skip_iteration

SpecSkip == InitSkip /\ [][NextSkip]_vars

MaxNullStack == 4
MaxNullMoves == 1

NullDepths == {6 * ONE_PLY, 13 * ONE_PLY}
NullPlies == {1, 2}
NullBetas == {-VALUE_KNOWN_WIN, 0}

\* a search<NonPV> invocation: pc is its position ("step8", "nullSearch" and
\* "verification" while the callee of 620-621 or 638-639 runs, "nullRet" and
\* "verifRet" when that callee has returned, "moves" in the move loop,
\* "moveCall" while a child of the move loop runs). set_ply and set_odd are
\* what lines 635-636 of this invocation wrote.
NullFrame(ply, depth, beta, skipEarlyPruning) ==
    [ply |-> ply, depth |-> depth, beta |-> beta,
     skipEarlyPruning |-> skipEarlyPruning,
     pc |-> "step8", R |-> 0, nullValue |-> VALUE_NONE, moveCount |-> 0,
     set_ply |-> 0, set_odd |-> 0]

\* the caller's position once its callee has returned
AfterCall(pc) ==
    CASE pc = "nullSearch" -> "nullRet"
      [] pc = "verification" -> "verifRet"
      [] OTHER -> "moves"

\* the stack after the return of its top invocation
NullPop(ss) ==
    IF Len(ss) = 1 THEN << >>
    ELSE LET caller == ss[Len(ss) - 1]
         IN Append(SubSeq(ss, 1, Len(ss) - 2),
                   [caller EXCEPT !.pc = AfterCall(caller.pc)])

NullTop == unit.ss[Len(unit.ss)]

NullSet(f) == [unit.ss EXCEPT ![Len(unit.ss)] = f]

\* 630: abs(beta) < VALUE_KNOWN_WIN && (depth < 12 * ONE_PLY || nmp_ply)
NullReturnsAtOnce(beta, depth, nmp_ply) ==
    Abs(beta) < VALUE_KNOWN_WIN /\ (depth < 12 * ONE_PLY \/ nmp_ply # 0)

\* 580-621: the way to step 8. early: skipEarlyPruning, no non-pawn material
\* or, from step 5, a position in check: the search goes to the move loop.
\* cond: eval >= beta and staticEval >= beta - 36 * depth / ONE_PLY + 225.
\* With the test of line 608 the null move is made and searched, by qsearch
\* when depth - R is below ONE_PLY.
Null_step8 ==
    /\ unit.op = "null"
    /\ unit.ss # << >>
    /\ NullTop.pc = "step8"
    /\ \E early \in BOOLEAN, cond \in BOOLEAN, gain \in {0, 3} :
        LET f == NullTop
            R == NullReduction(f.depth, gain)
        IN IF \/ f.skipEarlyPruning \/ early \/ ~cond
              \/ ~(f.ply >= unit.nmp_ply \/ f.ply % 2 # unit.nmp_odd)
           THEN unit' = [unit EXCEPT !.ss = NullSet([f EXCEPT !.pc = "moves"]),
                                     !.ret = "-"]
           ELSE IF f.depth - R < ONE_PLY
           THEN unit' = [unit EXCEPT
                           !.ss = NullSet([f EXCEPT !.pc = "nullRet", !.R = R]),
                           !.ret = "-"]
           ELSE /\ Len(unit.ss) < MaxNullStack
                /\ unit' = [unit EXCEPT
                              !.ss = Append(NullSet([f EXCEPT !.pc = "nullSearch",
                                                              !.R = R]),
                                            NullFrame(f.ply + 1, f.depth - R,
                                                      -f.beta + 1, TRUE)),
                              !.ret = "-"]
    /\ UNCHANGED sysVars

\* 623-639: the null move search has returned nullValue.
Null_ret ==
    /\ unit.op = "null"
    /\ unit.ss # << >>
    /\ NullTop.pc = "nullRet"
    /\ \E nv \in {NullTop.beta - 1, NullTop.beta, VALUE_MATE_IN_MAX_PLY} :
        LET f == NullTop
            nullValue == IF nv >= VALUE_MATE_IN_MAX_PLY THEN f.beta ELSE nv
            ply_ == f.ply + CDiv(3 * (f.depth - f.R), 4)
            odd_ == f.ply % 2
            g == [f EXCEPT !.nullValue = nullValue, !.set_ply = ply_,
                           !.set_odd = odd_]
        IN IF nv < f.beta
           THEN unit' = [unit EXCEPT !.ss = NullSet([f EXCEPT !.pc = "moves"]),
                                     !.ret = "-"]
           ELSE IF NullReturnsAtOnce(f.beta, f.depth, unit.nmp_ply)
           THEN unit' = [unit EXCEPT !.ss = NullPop(unit.ss), !.ret = "null"]
           ELSE IF f.depth - f.R < ONE_PLY
           THEN unit' = [unit EXCEPT
                           !.nmp_ply = ply_, !.nmp_odd = odd_,
                           !.ss = NullSet([g EXCEPT !.pc = "verifRet"]),
                           !.ret = "-"]
           ELSE /\ Len(unit.ss) < MaxNullStack
                /\ unit' = [unit EXCEPT
                              !.nmp_ply = ply_, !.nmp_odd = odd_,
                              !.ss = Append(NullSet([g EXCEPT !.pc = "verification"]),
                                            NullFrame(f.ply, f.depth - f.R,
                                                      f.beta, TRUE)),
                              !.ret = "-"]
    /\ UNCHANGED sysVars

\* 641-644: the verification search has returned v. high: v >= beta.
Null_verif_ret ==
    /\ unit.op = "null"
    /\ unit.ss # << >>
    /\ NullTop.pc = "verifRet"
    /\ \E high \in BOOLEAN :
        unit' = [unit EXCEPT
                   !.nmp_ply = 0, !.nmp_odd = 0,
                   !.ss = IF high THEN NullPop(unit.ss)
                          ELSE NullSet([NullTop EXCEPT !.pc = "moves"]),
                   !.ret = IF high THEN "verified" ELSE "-"]
    /\ UNCHANGED sysVars

\* 712-903: the move loop searches a move with the window (-beta, -beta + 1)
\* at newDepth = depth - ONE_PLY or, reduced by step 15, at ONE_PLY; below
\* ONE_PLY the callee is qsearch, which makes no null move.
Null_move ==
    /\ unit.op = "null"
    /\ unit.ss # << >>
    /\ NullTop.pc = "moves"
    /\ NullTop.moveCount < MaxNullMoves
    /\ \E d \in {NullTop.depth - ONE_PLY, ONE_PLY} :
        LET f == NullTop
            g == [f EXCEPT !.moveCount = f.moveCount + 1]
        IN IF f.depth - ONE_PLY < ONE_PLY
           THEN unit' = [unit EXCEPT !.ss = NullSet(g), !.ret = "-"]
           ELSE /\ Len(unit.ss) < MaxNullStack
                /\ unit' = [unit EXCEPT
                              !.ss = Append(NullSet([g EXCEPT !.pc = "moveCall"]),
                                            NullFrame(f.ply + 1, d, -f.beta + 1,
                                                      FALSE)),
                              !.ret = "-"]
    /\ UNCHANGED sysVars

\* 996-1035: the invocation returns from its move loop.
Null_finish ==
    /\ unit.op = "null"
    /\ unit.ss # << >>
    /\ NullTop.pc = "moves"
    /\ unit' = [unit EXCEPT !.ss = NullPop(unit.ss), !.ret = "loop"]
    /\ UNCHANGED sysVars

\* a search<NonPV> invocation on a thread with no verification in progress
InitNull ==
    /\ InitSys
    /\ \E ply \in NullPlies, depth \in NullDepths, beta \in NullBetas :
         unit = [op |-> "null", nmp_ply |-> 0, nmp_odd |-> 0,
                 ss |-> << NullFrame(ply, depth, beta, FALSE) >>, ret |-> "-"]

NextNull ==
    \/ Null_step8
    \/ Null_ret
    \/ Null_verif_ret
    \/ Null_move
    \/ Null_finish

SpecNull == InitNull /\ [][NextNull]_vars

\* the invocations whose verification search is in progress
Verifying == {i \in 1 .. Len(unit.ss) : unit.ss[i].pc = "verification"}

\* C18 as stated: while a verification search is running no invocation below
\* it starts a verification of its own, so nmp_ply and nmp_odd keep the
\* values its caller wrote until that caller resets them.
C18_NoNestedVerification ==
    (unit.op = "null" /\ Verifying # {}) =>
        LET i == CHOOSE j \in Verifying : \A k \in Verifying : j <= k
        IN /\ Verifying = {i}
           /\ \A j \in 1 .. Len(unit.ss) : unit.ss[j].pc # "verifRet"
           /\ unit.nmp_ply = unit.ss[i].set_ply
           /\ unit.nmp_odd = unit.ss[i].set_odd

\* ------------------------------------------------------------------------
\* The move loop of search and its step 20 over drawn move lists (SpecLoop)
\* ------------------------------------------------------------------------
MaxLoopMoves == 3

\* the pseudo-legal moves the move picker gives, in its order
RECURSIVE MoveLists(_)
MoveLists(n) ==
    IF n = 0 THEN {<< >>}
    ELSE LET shorter == MoveLists(n - 1)
         IN shorter \cup
            {Append(q, [legal |-> l, quiet |-> qt]) :
               q \in {r \in shorter : Len(r) = n - 1}, l \in BOOLEAN, qt \in BOOLEAN}

LoopPlies == {1, 3}

\* Mutant: step 20 keeps bestValue as the move loop left it.
Step20_keep(moveCount, excludedMove, inCheck, alpha, ply, bestValue) == bestValue

\* 1004-1006: if (!moveCount) bestValue = excludedMove ? alpha
\*                                       : inCheck ? mated_in(ss->ply) : VALUE_DRAW
Step20(moveCount, excludedMove, inCheck, alpha, ply, bestValue) ==
    IF moveCount = 0
    THEN IF excludedMove # MOVE_NONE THEN alpha
         ELSE IF inCheck THEN mated_in(ply) ELSE VALUE_DRAW
    ELSE bestValue

\* 714-980: one turn of the move loop at a node other than the root, with
\* the move at place idx of the picker. pruned: one of the tests of step 13
\* holds for the move; skip: that test is the move count pruning, which sets
\* skipQuiets; stopped: Threads.stop is set at step 18; value: what the
\* search of the move returned.
Loop_next_move ==
    /\ unit.op = "loop"
    /\ unit.pc = "loop"
    /\ unit.idx <= Len(unit.moves)
    /\ \E pruned \in BOOLEAN, skip \in BOOLEAN, stopped \in BOOLEAN,
          value \in {mated_in(unit.ply + 2), unit.alpha, unit.alpha + 1, unit.beta} :
        LET move == unit.idx
            m == unit.moves[move]
            next == [unit EXCEPT !.idx = unit.idx + 1]
            counted == [next EXCEPT !.moveCount = unit.moveCount + 1]
        IN IF unit.skipQuiets /\ m.quiet
           THEN unit' = next                         \* mp.next_move(skipQuiets)
           ELSE IF move = unit.excludedMove
           THEN unit' = next                         \* 717-718
           ELSE IF /\ unit.non_pawn_material
                   /\ unit.bestValue > VALUE_MATED_IN_MAX_PLY
                   /\ pruned
           THEN unit' = [counted EXCEPT              \* 775-808
                           !.skipQuiets = unit.skipQuiets \/ (skip /\ m.quiet)]
           ELSE IF ~m.legal
           THEN unit' = next                         \* 814-818: --moveCount
           ELSE IF stopped
           THEN unit' = [counted EXCEPT !.pc = "stopped", !.ret = VALUE_ZERO]
           ELSE IF value <= unit.bestValue
           THEN unit' = counted
           ELSE IF value <= unit.alpha
           THEN unit' = [counted EXCEPT !.bestValue = value]
           ELSE IF unit.PvNode /\ value < unit.beta
           THEN unit' = [counted EXCEPT !.bestValue = value, !.bestMove = move,
                                        !.alpha = value]
           ELSE unit' = [counted EXCEPT !.bestValue = value, !.bestMove = move,
                                        !.pc = "step20"]
    /\ UNCHANGED sysVars

\* the move picker has no more moves
Loop_end ==
    /\ unit.op = "loop"
    /\ unit.pc = "loop"
    /\ unit.idx > Len(unit.moves)
    /\ unit' = [unit EXCEPT !.pc = "step20"]
    /\ UNCHANGED sysVars

\* Mutant: a PV node stores EXACT whether or not it has a best move.
SearchBound_anyPv(bestValue, beta, PvNode, bestMove) ==
    IF bestValue >= beta THEN "BOUND_LOWER"
    ELSE IF PvNode THEN "BOUND_EXACT" ELSE "BOUND_UPPER"

\* 1029-1030: the bound of the save of search
SearchBound(bestValue, beta, PvNode, bestMove) ==
    IF bestValue >= beta THEN "BOUND_LOWER"
    ELSE IF PvNode /\ bestMove # MOVE_NONE THEN "BOUND_EXACT" ELSE "BOUND_UPPER"

\* 996-1035: step 20, the save in the transposition table and the return
Loop_step20 ==
    /\ unit.op = "loop"
    /\ unit.pc = "step20"
    /\ LET b == Step20(unit.moveCount, unit.excludedMove, unit.inCheck,
                       unit.alpha, unit.ply, unit.bestValue)
           bestValue == IF unit.PvNode THEN Min(b, VALUE_INFINITE) ELSE b
       IN unit' = [unit EXCEPT
                     !.pc = "returned",
                     !.bestValue = bestValue,
                     !.saved = IF unit.excludedMove = MOVE_NONE
                               THEN value_to_tt(bestValue, unit.ply)
                               ELSE VALUE_NONE,
                     !.bound = IF unit.excludedMove = MOVE_NONE
                               THEN SearchBound(bestValue, unit.beta, unit.PvNode,
                                                unit.bestMove)
                               ELSE "BOUND_NONE",
                     !.ret = bestValue]
    /\ UNCHANGED sysVars

\* a node at the start of its move loop: the window has passed step 3, the
\* excluded move is a legal move of the list, bestValue is -VALUE_INFINITE
InitLoop ==
    /\ InitSys
    /\ \E moves \in MoveLists(MaxLoopMoves), ply \in LoopPlies,
          PvNode \in BOOLEAN, inCheck \in BOOLEAN, npm \in BOOLEAN,
          low \in BOOLEAN :
        \E excludedMove \in {MOVE_NONE} \cup
                            {i \in 1 .. Len(moves) : moves[i].legal /\ ~PvNode} :
          LET alpha == IF low THEN mated_in(ply) ELSE -50
              beta == IF PvNode THEN alpha + 100 ELSE alpha + 1
          IN unit = [op |-> "loop", pc |-> "loop", moves |-> moves, ply |-> ply,
                     PvNode |-> PvNode, inCheck |-> inCheck,
                     non_pawn_material |-> npm, excludedMove |-> excludedMove,
                     alpha0 |-> alpha, alpha |-> alpha, beta |-> beta, idx |-> 1,
                     moveCount |-> 0, bestValue |-> -VALUE_INFINITE,
                     bestMove |-> MOVE_NONE, skipQuiets |-> FALSE,
                     saved |-> VALUE_NONE, bound |-> "BOUND_NONE",
                     ret |-> VALUE_NONE]

NextLoop ==
    \/ Loop_next_move
    \/ Loop_end
    \/ Loop_step20

SpecLoop == InitLoop /\ [][NextLoop]_vars

\* the legal moves of the node other than the excluded move
LegalOthers ==
    {i \in 1 .. Len(unit.moves) : unit.moves[i].legal /\ i # unit.excludedMove}

\* C19: at the end of the move loop moveCount is 0 exactly when the node has
\* no legal move other than the excluded move; bestValue is then alpha in an
\* excluded-move search, mated_in(ply) in check and VALUE_DRAW otherwise; the
\* value returned, and stored unless a move is excluded, is strictly between
\* -VALUE_INFINITE and VALUE_INFINITE.
C19_MateAndStalemate ==
    /\ (unit.op = "loop" /\ unit.pc = "step20") =>
          (unit.moveCount = 0 <=> LegalOthers = {})
    /\ (unit.op = "loop" /\ unit.pc = "returned") =>
          /\ LegalOthers = {} =>
               unit.ret = (IF unit.excludedMove # MOVE_NONE THEN unit.alpha0
                           ELSE IF unit.inCheck THEN -VALUE_MATE + unit.ply
                           ELSE VALUE_DRAW)
          /\ unit.ret > -VALUE_INFINITE
          /\ unit.ret < VALUE_INFINITE
          /\ unit.excludedMove = MOVE_NONE =>
               /\ unit.saved > -VALUE_INFINITE
               /\ unit.saved < VALUE_INFINITE
          /\ unit.excludedMove # MOVE_NONE => unit.saved = VALUE_NONE

\* a node in check whose three pseudo-legal moves are all illegal returns
\* mated_in(ply)
C19_Witness ==
    /\ unit.op = "loop"
    /\ unit.pc = "returned"
    /\ Len(unit.moves) = 3
    /\ LegalOthers = {}
    /\ unit.inCheck
    /\ unit.excludedMove = MOVE_NONE
    /\ unit.moveCount = 0
    /\ unit.ret = -VALUE_MATE + unit.ply

\* ------------------------------------------------------------------------
\* qsearch and its move loop over drawn move lists (SpecQs)
\* ------------------------------------------------------------------------
MaxQMoves == 2

\* the moves the move picker of qsearch gives, in its order: legal tells
\* pos.legal(move), capture pos.capture(move), see pos.see_ge(move)
RECURSIVE QMoveLists(_)
QMoveLists(n) ==
    IF n = 0 THEN {<< >>}
    ELSE LET shorter == QMoveLists(n - 1)
         IN shorter \cup
            {Append(q, [legal |-> l, capture |-> c, see |-> g]) :
               q \in {r \in shorter : Len(r) = n - 1},
               l \in BOOLEAN, c \in BOOLEAN, g \in BOOLEAN}

\* Mutant: an evasion can be pruned whatever bestValue is.
EvasionPrunable_always(InCheck, depth, moveCount, bestValue, capture) ==
    /\ InCheck
    /\ (depth # DEPTH_ZERO \/ moveCount > 2)
    /\ ~capture

\* 1182-1185: evasionPrunable
EvasionPrunable(InCheck, depth, moveCount, bestValue, capture) ==
    /\ InCheck
    /\ (depth # DEPTH_ZERO \/ moveCount > 2)
    /\ bestValue > VALUE_MATED_IN_MAX_PLY
    /\ ~capture

\* 1063-1137: the way to the move loop. early: the draw and MAX_PLY return
\* of 1075-1076 or the transposition table return of 1093-1097; eval: the
\* static value of a position not in check, after the correction by ttValue.
Qs_enter ==
    /\ unit.op = "qsearch"
    /\ unit.pc = "enter"
    /\ \E early \in BOOLEAN, eval \in {unit.alpha - 200, unit.alpha, unit.beta} :
        IF early
        THEN unit' = [unit EXCEPT !.pc = "returned", !.exit = "early",
                                  !.ret = VALUE_DRAW]
        ELSE IF unit.InCheck
        THEN unit' = [unit EXCEPT !.pc = "loop", !.bestValue = -VALUE_INFINITE,
                                  !.futilityBase = -VALUE_INFINITE]
        ELSE IF eval >= unit.beta
        THEN unit' = [unit EXCEPT !.pc = "returned", !.exit = "standPat",
                                  !.bestValue = eval, !.ret = eval]
        ELSE unit' = [unit EXCEPT
                        !.pc = "loop", !.bestValue = eval,
                        !.alpha = IF unit.PvNode /\ eval > unit.alpha THEN eval
                                  ELSE unit.alpha,
                        !.futilityBase = eval + 128]
    /\ UNCHANGED sysVars

\* 1146-1228: one turn of the move loop. futile: the move gives no check and
\* is no advanced pawn push; piece: PieceValue[EG] of the piece on its target
\* square; see1: pos.see_ge(move, VALUE_ZERO + 1); value: what the search of
\* the move returned.
Qs_next_move ==
    /\ unit.op = "qsearch"
    /\ unit.pc = "loop"
    /\ unit.idx <= Len(unit.moves)
    /\ \E futile \in BOOLEAN, piece \in {0, 200}, see1 \in BOOLEAN,
          value \in {mated_in(unit.ply + 1), unit.alpha, unit.alpha + 1, unit.beta} :
        LET m == unit.moves[unit.idx]
            moveCount == unit.moveCount + 1
            futilityValue == unit.futilityBase + piece
            counted == [unit EXCEPT !.idx = unit.idx + 1, !.moveCount = moveCount]
            searched == [counted EXCEPT !.searched = unit.searched + 1]
            cut == [counted EXCEPT
                      !.pruned = unit.pruned \/ (m.legal /\ unit.searched = 0)]
        IN /\ see1 => m.see
           /\ IF /\ ~unit.InCheck /\ futile
                 /\ unit.futilityBase > -VALUE_KNOWN_WIN
                 /\ futilityValue <= unit.alpha
              THEN unit' = [cut EXCEPT !.bestValue = Max(unit.bestValue, futilityValue)]
              ELSE IF /\ ~unit.InCheck /\ futile
                      /\ unit.futilityBase > -VALUE_KNOWN_WIN
                      /\ unit.futilityBase <= unit.alpha /\ ~see1
              THEN unit' = [cut EXCEPT
                              !.bestValue = Max(unit.bestValue, unit.futilityBase)]
              ELSE IF /\ \/ ~unit.InCheck
                         \/ EvasionPrunable(unit.InCheck, unit.depth, moveCount,
                                            unit.bestValue, m.capture)
                      /\ ~m.see
              THEN unit' = cut
              ELSE IF ~m.legal
              THEN unit' = [unit EXCEPT !.idx = unit.idx + 1]   \* moveCount--
              ELSE IF value <= unit.bestValue
              THEN unit' = searched
              ELSE IF value <= unit.alpha
              THEN unit' = [searched EXCEPT !.bestValue = value]
              ELSE IF unit.PvNode /\ value < unit.beta
              THEN unit' = [searched EXCEPT !.bestValue = value, !.alpha = value]
              ELSE unit' = [searched EXCEPT !.bestValue = value, !.pc = "done"]
    /\ UNCHANGED sysVars

\* the move picker has no more moves
Qs_end ==
    /\ unit.op = "qsearch"
    /\ unit.pc = "loop"
    /\ unit.idx > Len(unit.moves)
    /\ unit' = [unit EXCEPT !.pc = "done"]
    /\ UNCHANGED sysVars

\* 1237-1238: the bound of the save of qsearch
QsearchBound(bestValue, beta, PvNode, oldAlpha) ==
    IF bestValue >= beta THEN "BOUND_LOWER"
    ELSE IF PvNode /\ bestValue > oldAlpha THEN "BOUND_EXACT" ELSE "BOUND_UPPER"

\* 1231-1243: the mate return, or the save and the return of bestValue
Qs_return ==
    /\ unit.op = "qsearch"
    /\ unit.pc = "done"
    /\ IF unit.InCheck /\ unit.bestValue = -VALUE_INFINITE
       THEN unit' = [unit EXCEPT !.pc = "returned", !.exit = "mate",
                                 !.ret = mated_in(unit.ply)]
       ELSE unit' = [unit EXCEPT !.pc = "returned", !.exit = "value",
                                 !.saved = value_to_tt(unit.bestValue, unit.ply),
                                 !.bound = QsearchBound(unit.bestValue, unit.beta,
                                                        unit.PvNode, unit.oldAlpha),
                                 !.ret = unit.bestValue]
    /\ UNCHANGED sysVars

InitQs ==
    /\ InitSys
    /\ \E moves \in QMoveLists(MaxQMoves), ply \in LoopPlies, PvNode \in BOOLEAN,
          InCheck \in BOOLEAN, depth \in {DEPTH_ZERO, DEPTH_ZERO - ONE_PLY} :
         LET alpha == -50
             beta == IF PvNode THEN alpha + 100 ELSE alpha + 1
         IN unit = [op |-> "qsearch", pc |-> "enter", exit |-> "-",
                    moves |-> moves, ply |-> ply, PvNode |-> PvNode,
                    InCheck |-> InCheck, depth |-> depth, oldAlpha |-> alpha,
                    alpha |-> alpha, beta |-> beta, bound |-> "BOUND_NONE", idx |-> 1, moveCount |-> 0, searched |-> 0,
                    pruned |-> FALSE, bestValue |-> VALUE_NONE,
                    futilityBase |-> VALUE_NONE, saved |-> VALUE_NONE,
                    ret |-> VALUE_NONE]

NextQs ==
    \/ Qs_enter
    \/ Qs_next_move
    \/ Qs_end
    \/ Qs_return

SpecQs == InitQs /\ [][NextQs]_vars

\* C20: qsearch in check takes the mate return, with mated_in(ply), exactly
\* when its move loop has searched no legal move, and the first legal evasion
\* is never pruned: no legal move is passed over before a move has been
\* searched, so the mate return means that the list has no legal move.
C20_MateInQsearch ==
    (unit.op = "qsearch" /\ unit.InCheck) =>
        /\ ~unit.pruned
        /\ (unit.pc = "returned" /\ unit.exit # "early") =>
             /\ unit.exit = "mate" <=> unit.searched = 0
             /\ unit.exit = "mate" =>
                  /\ unit.ret = -VALUE_MATE + unit.ply
                  /\ \A i \in 1 .. Len(unit.moves) : ~unit.moves[i].legal

\* in check below depth 0 the first evasion, a quiet move with a negative
\* exchange value, has been searched and the second, alike, has been pruned
C20_Witness ==
    /\ unit.op = "qsearch"
    /\ unit.InCheck
    /\ unit.depth # DEPTH_ZERO
    /\ unit.pc = "returned"
    /\ unit.exit = "value"
    /\ Len(unit.moves) = 2
    /\ \A i \in 1 .. 2 : /\ unit.moves[i].legal
                         /\ ~unit.moves[i].capture
                         /\ ~unit.moves[i].see
    /\ unit.searched = 1
    /\ unit.moveCount = 2

\* ------------------------------------------------------------------------
\* The final save of search and of qsearch (SpecStore)
\* ------------------------------------------------------------------------
InitStore == InitLoop \/ InitQs

NextStore ==
    \/ NextLoop
    \/ NextQs

SpecStore == InitStore /\ [][NextStore]_vars

\* C21: search makes its final save exactly when the node has no excluded
\* move, with the bound LOWER exactly when bestValue >= beta, otherwise EXACT
\* exactly at a PV node that ended with a best move, otherwise UPPER; qsearch
\* saves LOWER when bestValue >= beta, otherwise EXACT exactly at a PV node
\* with bestValue above the alpha it was entered with, otherwise UPPER; the
\* value saved is value_to_tt(bestValue, ply).
C21_FinalSave ==
    /\ (unit.op = "loop" /\ unit.pc = "returned") =>
         /\ unit.bound # "BOUND_NONE" <=> unit.excludedMove = MOVE_NONE
         /\ unit.bound # "BOUND_NONE" =>
              /\ unit.bound = "BOUND_LOWER" <=> unit.ret >= unit.beta
              /\ unit.bound = "BOUND_EXACT" <=>
                   (unit.ret < unit.beta /\ unit.PvNode /\ unit.bestMove # MOVE_NONE)
              /\ unit.bound \in {"BOUND_LOWER", "BOUND_EXACT", "BOUND_UPPER"}
              /\ unit.saved = (IF unit.ret >= VALUE_MATE_IN_MAX_PLY
                               THEN unit.ret + unit.ply
                               ELSE IF unit.ret <= VALUE_MATED_IN_MAX_PLY
                               THEN unit.ret - unit.ply ELSE unit.ret)
    /\ (unit.op = "qsearch" /\ unit.pc = "returned" /\ unit.exit = "value") =>
         /\ unit.bound = "BOUND_LOWER" <=> unit.ret >= unit.beta
         /\ unit.bound = "BOUND_EXACT" <=>
              (unit.ret < unit.beta /\ unit.PvNode /\ unit.ret > unit.oldAlpha)
         /\ unit.bound \in {"BOUND_LOWER", "BOUND_EXACT", "BOUND_UPPER"}
         /\ unit.saved = (IF unit.ret >= VALUE_MATE_IN_MAX_PLY
                          THEN unit.ret + unit.ply
                          ELSE IF unit.ret <= VALUE_MATED_IN_MAX_PLY
                          THEN unit.ret - unit.ply ELSE unit.ret)

\* a PV node of search without legal moves and not in check saves the draw
\* value, which is above alpha, with the bound UPPER
C21_Witness ==
    /\ unit.op = "loop"
    /\ unit.pc = "returned"
    /\ unit.PvNode
    /\ unit.moveCount = 0
    /\ unit.ret = VALUE_DRAW
    /\ unit.ret > unit.alpha
    /\ unit.bound = "BOUND_UPPER"

\* ------------------------------------------------------------------------
\* singularExtensionNode over drawn nodes and TT entries (SpecSingular)
\* ------------------------------------------------------------------------
BOUND_NONE == 0
BOUND_UPPER == 1
BOUND_LOWER == 2
BOUND_EXACT == 3

SingularDepths == {7 * ONE_PLY, 8 * ONE_PLY, 12 * ONE_PLY}

\* Mutant: the excluded move is not looked at.
SingularExtensionNode_recursive(rootNode, depth, ttMove, ttValue, excludedMove, bound, tteDepth) ==
    /\ ~rootNode
    /\ depth >= 8 * ONE_PLY
    /\ ttMove # MOVE_NONE
    /\ ttValue # VALUE_NONE
    /\ BitAnd(bound, BOUND_LOWER) # 0
    /\ tteDepth >= depth - 3 * ONE_PLY

\* 699-705: singularExtensionNode
SingularExtensionNode(rootNode, depth, ttMove, ttValue, excludedMove, bound, tteDepth) ==
    /\ ~rootNode
    /\ depth >= 8 * ONE_PLY
    /\ ttMove # MOVE_NONE
    /\ ttValue # VALUE_NONE
    /\ excludedMove = MOVE_NONE
    /\ BitAnd(bound, BOUND_LOWER) # 0
    /\ tteDepth >= depth - 3 * ONE_PLY

\* 699-705: the flag is set at the start of the move loop
Singular_set ==
    /\ unit.op = "singular"
    /\ unit.pc = "moves_loop"
    /\ unit' = [unit EXCEPT
                  !.pc = "loop",
                  !.singularExtensionNode =
                      SingularExtensionNode(unit.rootNode, unit.depth, unit.ttMove,
                                            unit.ttValue, unit.excludedMove,
                                            unit.bound, unit.tteDepth)]
    /\ UNCHANGED sysVars

\* 754-766: the move of the loop is the ttMove (isTT) and is legal or not:
\* the singular search with the move excluded returns value, below rBeta or
\* not; otherwise a checking move with a good exchange value is extended.
Singular_extend ==
    /\ unit.op = "singular"
    /\ unit.pc = "loop"
    /\ \E isTT \in BOOLEAN, legal \in BOOLEAN, below \in BOOLEAN,
          check \in BOOLEAN :
        IF unit.singularExtensionNode /\ isTT /\ unit.ttMove # MOVE_NONE /\ legal
        THEN unit' = [unit EXCEPT
                        !.pc = "searched", !.searches = unit.searches + 1,
                        !.extension = IF below THEN ONE_PLY ELSE DEPTH_ZERO]
        ELSE unit' = [unit EXCEPT
                        !.pc = "searched",
                        !.extension = IF check THEN ONE_PLY ELSE DEPTH_ZERO]
    /\ UNCHANGED sysVars

\* a node at moves_loop with what step 4 read of the transposition table:
\* without a hit there is no value and, off the root, no move; the root has
\* no excluded move and takes its move from rootMoves
InitSingular ==
    /\ InitSys
    /\ \E rootNode \in BOOLEAN, depth \in SingularDepths, ttHit \in BOOLEAN,
          move \in {MOVE_NONE, 1}, value \in {VALUE_NONE, 30},
          excludedMove \in {MOVE_NONE, 2},
          bound \in {BOUND_NONE, BOUND_UPPER, BOUND_LOWER, BOUND_EXACT},
          back \in {0, 3, 4} :
         /\ rootNode => excludedMove = MOVE_NONE
         /\ unit = [op |-> "singular", pc |-> "moves_loop", rootNode |-> rootNode,
                    depth |-> depth, ttHit |-> ttHit,
                    ttMove |-> IF rootNode THEN 1
                               ELSE IF ttHit THEN move ELSE MOVE_NONE,
                    ttValue |-> IF ttHit THEN value ELSE VALUE_NONE,
                    excludedMove |-> excludedMove, bound |-> bound,
                    tteDepth |-> depth - back * ONE_PLY,
                    singularExtensionNode |-> FALSE, searches |-> 0,
                    extension |-> DEPTH_ZERO]

NextSingular ==
    \/ Singular_set
    \/ Singular_extend

SpecSingular == InitSingular /\ [][NextSingular]_vars

\* C22 as stated: singularExtensionNode is set if and only if the node is not
\* the root, depth >= 8 plies, a ttMove is present, the bound of the entry
\* includes LOWER and the depth of the entry is >= depth - 3 plies.
C22_SingularFiveConditions ==
    (unit.op = "singular" /\ unit.pc # "moves_loop") =>
        (unit.singularExtensionNode <=>
            /\ ~unit.rootNode
            /\ unit.depth >= 8 * ONE_PLY
            /\ unit.ttMove # MOVE_NONE
            /\ unit.bound \in {BOUND_LOWER, BOUND_EXACT}
            /\ unit.tteDepth >= unit.depth - 3 * ONE_PLY)

\* C22: singularExtensionNode is set if and only if the node is not the
\* root, depth >= 8 plies, a ttMove is present, ttValue is not VALUE_NONE,
\* the node has no excluded move, the bound of the entry includes LOWER and
\* the depth of the entry is >= depth - 3 plies.
C22_SingularSevenConditions ==
    (unit.op = "singular" /\ unit.pc # "moves_loop") =>
        (unit.singularExtensionNode <=>
            /\ ~unit.rootNode
            /\ unit.depth >= 8 * ONE_PLY
            /\ unit.ttMove # MOVE_NONE
            /\ unit.ttValue # VALUE_NONE
            /\ unit.excludedMove = MOVE_NONE
            /\ unit.bound \in {BOUND_LOWER, BOUND_EXACT}
            /\ unit.tteDepth >= unit.depth - 3 * ONE_PLY)

\* at depth 8 an entry of depth 5 with the bound EXACT sets the flag and the
\* singular search has been made
C22_Witness ==
    /\ unit.op = "singular"
    /\ unit.pc = "searched"
    /\ unit.depth = 8 * ONE_PLY
    /\ unit.tteDepth = 5 * ONE_PLY
    /\ unit.bound = BOUND_EXACT
    /\ unit.singularExtensionNode
    /\ unit.searches = 1
    /\ unit.extension = ONE_PLY


\* ------------------------------------------------------------------------
\* The frames of the search stack (SpecStack)
\* ------------------------------------------------------------------------
MOVE_NULL == 65
MaxFrameCount == 2

\* types.h: a move is ok when its from and to squares differ, which rules
\* out MOVE_NONE and MOVE_NULL
is_ok(m) == ((m \div 64) % 64) # (m % 64)

\* 254: Stack stack[MAX_PLY+7], *ss = stack+4
StackSize == MAX_PLY + 7
RootFrameIndex == 4

\* the values of a frame's currentMove: none, the null move, a real move
FrameMoves == {MOVE_NONE, MOVE_NULL, 796}
RealMoves == {m \in FrameMoves : is_ok(m)}

\* 1285-1290: the frames update_continuation_histories(ss, ...) reads
update_continuation_histories(ss) == {ss - i : i \in {1, 2, 4}}

\* 1315-1341: the frames update_stats(pos, ss, ...) reads and writes
update_stats(ss) == {ss, ss - 1} \cup update_continuation_histories(ss)

\* Mutant: the penalty for the previous move does not look at its moveCount.
PreviousRefuted_anyCount(prevCount, captured) == ~captured

\* 537, 1015: the previous ply's first move was refuted
PreviousRefuted(prevCount, captured) == prevCount = 1 /\ ~captured

\* A node: the invocation of fn on frame ss, the ply it reads there, whether
\* the side to move is in check, and the moveCount and currentMove of frame
\* ss-1.
StackNode(fn, nt, ss, ply, skip, inCheck, prevMove, prevCount, curCount, touched) ==
    [spec |-> "stack", pc |-> "enter", fn |-> fn, NT |-> nt, ss |-> ss,
     ply |-> ply, skipEarlyPruning |-> skip, inCheck |-> inCheck,
     prevMove |-> prevMove,
     prevCount |-> prevCount, curCount |-> curCount, touched |-> touched]

StackIdle == [StackNode("search", "PV", RootFrameIndex, 0, FALSE, FALSE, MOVE_NONE, 0, 0, {})
                 EXCEPT !.pc = "idle"]

\* 254-263, 319: the frames ss-4 .. ss+2 are zeroed, then search is called
\* on stack+4
Stack_begin ==
    /\ unit.spec = "stack" /\ unit.pc = "idle"
    /\ \E inCheck \in BOOLEAN :
        unit' = StackNode("search", "PV", RootFrameIndex, 0, FALSE, inCheck,
                          MOVE_NONE, 0, 0,
                          (RootFrameIndex - 4) .. (RootFrameIndex + 2))
    /\ UNCHANGED sysVars

\* 468-508: steps 1 to 3 and the bookkeeping of frames ss+1 and ss+2
Stack_enter ==
    /\ unit.spec = "stack" /\ unit.pc = "enter" /\ unit.fn = "search"
    /\ \E leave \in BOOLEAN :
        LET rootNode == unit.NT = "PV" /\ unit.ply = 0
        IN IF ~rootNode /\ (leave \/ unit.ply >= MAX_PLY)
           THEN unit' = [unit EXCEPT !.pc = "idle", !.curCount = 0,
                                     !.touched = {unit.ss}]
           ELSE unit' = [unit EXCEPT !.pc = "tt", !.curCount = 0,
                            !.touched = {unit.ss, unit.ss + 1, unit.ss + 2,
                                         unit.ss - 1}]
    /\ UNCHANGED sysVars

\* 520-548: the early TT cutoff of a non-PV node
Stack_ttcut ==
    /\ unit.spec = "stack" /\ unit.pc = "tt" /\ unit.NT = "NonPV"
    /\ \E ttMove, failHigh, quiet, captured \in BOOLEAN :
        unit' = [unit EXCEPT !.pc = "idle",
                    !.touched =
                        IF ~ttMove THEN {}
                        ELSE IF failHigh
                        THEN (IF quiet THEN update_stats(unit.ss) ELSE {})
                             \cup {unit.ss - 1}
                             \cup (IF PreviousRefuted(unit.prevCount, captured)
                                   THEN update_continuation_histories(unit.ss - 1)
                                   ELSE {})
                        ELSE IF quiet
                        THEN update_continuation_histories(unit.ss)
                        ELSE {}]
    /\ UNCHANGED sysVars

\* Mutant: a node in check runs the early pruning steps.
SkipsToMovesLoop_noCheck(inCheck, skipEarlyPruning, pawnsOnly) == skipEarlyPruning \/ pawnsOnly

\* 552-557, 580-581: the steps 6 to 10 are jumped over
SkipsToMovesLoop(inCheck, skipEarlyPruning, pawnsOnly) == inCheck \/ skipEarlyPruning \/ pawnsOnly

\* 551-581: step 5 and the jump to the move loop
Stack_eval ==
    /\ unit.spec = "stack" /\ unit.pc = "tt"
    /\ \E ttHit, pawnsOnly \in BOOLEAN :
        unit' = [unit EXCEPT
                    !.pc = IF SkipsToMovesLoop(unit.inCheck,
                                               unit.skipEarlyPruning, pawnsOnly)
                           THEN "loop" ELSE "early",
                    !.touched = IF unit.inCheck \/ ttHit THEN {unit.ss}
                                ELSE {unit.ss, unit.ss - 1}]
    /\ UNCHANGED sysVars

\* 584-595: razoring calls qsearch on the same frame
Stack_razoring ==
    /\ unit.spec = "stack" /\ unit.pc = "early" /\ unit.NT = "NonPV"
    /\ unit' = [unit EXCEPT !.pc = "enter", !.fn = "qsearch", !.touched = {}]
    /\ UNCHANGED sysVars

\* 604-621: the null move and its search on frame ss+1; the side to move
\* after a null move is not in check
Stack_null ==
    /\ unit.spec = "stack" /\ unit.pc = "early" /\ unit.NT = "NonPV"
    /\ \E fn \in {"search", "qsearch"} :
        unit' = StackNode(fn, "NonPV", unit.ss + 1, unit.ply + 1, fn = "search",
                          FALSE, MOVE_NULL, unit.curCount, unit.curCount,
                          {unit.ss})
    /\ UNCHANGED sysVars

\* 638-639: the verification search on the same frame
Stack_verification ==
    /\ unit.spec = "stack" /\ unit.pc = "early" /\ unit.NT = "NonPV"
    /\ \E fn \in {"search", "qsearch"} :
        unit' = [unit EXCEPT !.pc = "enter", !.fn = fn,
                             !.skipEarlyPruning = (fn = "search"),
                             !.touched = {}]
    /\ UNCHANGED sysVars

\* 651-669: ProbCut searches a capture on frame ss+1
Stack_probcut ==
    /\ unit.spec = "stack" /\ unit.pc = "early" /\ unit.NT = "NonPV"
    /\ \E move \in RealMoves, givesCheck \in BOOLEAN :
        unit' = StackNode("search", "NonPV", unit.ss + 1, unit.ply + 1, FALSE,
                          givesCheck, move, unit.curCount, unit.curCount,
                          {unit.ss - 1, unit.ss})
    /\ UNCHANGED sysVars

\* 676-682: internal iterative deepening on the same frame
Stack_iid ==
    /\ unit.spec = "stack" /\ unit.pc = "early"
    /\ unit' = [unit EXCEPT !.pc = "enter", !.skipEarlyPruning = TRUE,
                            !.touched = {unit.ss}]
    /\ UNCHANGED sysVars

\* 690-705: moves_loop reads the continuation histories and the static
\* evaluation of earlier plies
Stack_moves_loop ==
    /\ unit.spec = "stack" /\ unit.pc \in {"early", "loop"}
    /\ unit' = [unit EXCEPT !.pc = "moves",
                            !.touched = {unit.ss, unit.ss - 1, unit.ss - 2,
                                         unit.ss - 4}]
    /\ UNCHANGED sysVars

\* 754-761: the singular extension search on the same frame
Stack_singular ==
    /\ unit.spec = "stack" /\ unit.pc = "moves"
    /\ ~(unit.NT = "PV" /\ unit.ply = 0)
    /\ \E n \in 1 .. MaxFrameCount :
        unit' = [unit EXCEPT !.pc = "enter", !.NT = "NonPV", !.curCount = n,
                             !.skipEarlyPruning = TRUE, !.touched = {unit.ss}]
    /\ UNCHANGED sysVars

\* 719-916: a move of the loop and its search on frame ss+1
Stack_move ==
    /\ unit.spec = "stack" /\ unit.pc = "moves"
    /\ \E n \in 1 .. MaxFrameCount, move \in RealMoves,
          fn \in {"search", "qsearch"}, nt \in {"PV", "NonPV"},
          givesCheck \in BOOLEAN :
        /\ nt = "PV" => unit.NT = "PV"
        /\ unit' = StackNode(fn, nt, unit.ss + 1, unit.ply + 1, FALSE, givesCheck,
                             move, n, n, {unit.ss, unit.ss - 1, unit.ss + 1})
    /\ UNCHANGED sysVars

\* 996-1035: step 20 and the return
Stack_step20 ==
    /\ unit.spec = "stack" /\ unit.pc = "moves"
    /\ \E moveCount \in 0 .. MaxFrameCount,
          bestMove, quiet, captured, deep \in BOOLEAN :
        /\ bestMove => moveCount > 0
        /\ unit' = [unit EXCEPT !.pc = "idle", !.curCount = moveCount,
                    !.touched =
                        {unit.ss} \cup
                        (IF moveCount = 0 THEN {}
                         ELSE IF bestMove
                         THEN (IF quiet THEN update_stats(unit.ss) ELSE {})
                              \cup {unit.ss - 1}
                              \cup (IF PreviousRefuted(unit.prevCount, captured)
                                    THEN update_continuation_histories(unit.ss - 1)
                                    ELSE {})
                         ELSE IF deep /\ ~captured
                         THEN {unit.ss - 1}
                              \cup (IF is_ok(unit.prevMove)
                                    THEN update_continuation_histories(unit.ss - 1)
                                    ELSE {})
                         ELSE {})]
    /\ UNCHANGED sysVars

\* 1063-1076: qsearch writes frames ss and ss+1, then returns at MAX_PLY
Stack_qenter ==
    /\ unit.spec = "stack" /\ unit.pc = "enter" /\ unit.fn = "qsearch"
    /\ \E draw \in BOOLEAN :
        unit' = [unit EXCEPT
                    !.pc = IF draw \/ unit.ply >= MAX_PLY THEN "idle" ELSE "qmoves",
                    !.touched = {unit.ss, unit.ss + 1}]
    /\ UNCHANGED sysVars

\* 1100-1205: a move of qsearch and its search on frame ss+1; qsearch does
\* not write ss->moveCount, the child finds the one left there
Stack_qmove ==
    /\ unit.spec = "stack" /\ unit.pc = "qmoves"
    /\ \E move \in RealMoves, stale \in 0 .. MaxFrameCount,
          givesCheck \in BOOLEAN :
        unit' = StackNode("qsearch", unit.NT, unit.ss + 1, unit.ply + 1, FALSE,
                          givesCheck, move, stale, stale,
                          {unit.ss, unit.ss - 1, unit.ss + 1})
    /\ UNCHANGED sysVars

\* 1218-1243: qsearch returns
Stack_qreturn ==
    /\ unit.spec = "stack" /\ unit.pc = "qmoves"
    /\ unit' = [unit EXCEPT !.pc = "idle", !.touched = {unit.ss, unit.ss + 1}]
    /\ UNCHANGED sysVars

InitStack == InitSys /\ unit = StackIdle

NextStack ==
    \/ Stack_begin \/ Stack_enter \/ Stack_ttcut \/ Stack_eval
    \/ Stack_razoring \/ Stack_null \/ Stack_verification \/ Stack_probcut
    \/ Stack_iid \/ Stack_moves_loop \/ Stack_singular \/ Stack_move
    \/ Stack_step20 \/ Stack_qenter \/ Stack_qmove \/ Stack_qreturn

SpecStack == InitStack /\ [][NextStack]_vars

\* C23: every frame a node touches lies inside stack[MAX_PLY+7]: the node at
\* ply p runs on frame p + 4 with p in 0 .. MAX_PLY, and the frames touched
\* by search, qsearch, update_stats and update_continuation_histories, also
\* those called on ss-1, have indices in 0 .. MAX_PLY+6.
C23_FramesInsideStack ==
    unit.spec = "stack" =>
        /\ unit.touched \subseteq 0 .. (StackSize - 1)
        /\ unit.ss = unit.ply + RootFrameIndex
        /\ unit.ply \in 0 .. MAX_PLY

\* C23 witness: step 20 of a node at ply 1 calls
\* update_continuation_histories on ss-1, which reads frame 0.
C23_Witness ==
    /\ unit.spec = "stack" /\ unit.pc = "idle" /\ unit.ply = 1
    /\ unit.fn = "search"
    /\ 0 \in unit.touched

\* the other end: qsearch at ply MAX_PLY writes frame MAX_PLY + 5
C23_WitnessTop ==
    /\ unit.spec = "stack" /\ unit.fn = "qsearch" /\ unit.ply = MAX_PLY
    /\ (MAX_PLY + 5) \in unit.touched

\* this step makes a null move: the next node is on frame ss+1 with MOVE_NULL
\* as the previous ply's currentMove
NullMoveMade ==
    /\ unit.spec = "stack" /\ unit.pc = "early"
    /\ unit'.pc = "enter" /\ unit'.ss = unit.ss + 1
    /\ unit'.prevMove = MOVE_NULL

Stack_rootNode == unit.NT = "PV" /\ unit.ply = 0

\* C27 as stated: no null move is made in a position reached by a null move
\* or with the side to move in check, and whenever the early pruning steps
\* are executed the previous ply's currentMove is a real move.
C27_RealMoveBeforeEarlyPruning ==
    /\ [][NullMoveMade => unit.prevMove # MOVE_NULL /\ ~unit.inCheck]_vars
    /\ []((unit.spec = "stack" /\ unit.pc = "early") => is_ok(unit.prevMove))

\* C27 amended: the same, with the previous move a real move at every node
\* other than the root, where it is MOVE_NONE.
C27_RealMoveBelowRoot ==
    /\ [][NullMoveMade => unit.prevMove # MOVE_NULL /\ ~unit.inCheck]_vars
    /\ []((unit.spec = "stack" /\ unit.pc = "early") =>
            /\ ~Stack_rootNode => is_ok(unit.prevMove)
            /\ Stack_rootNode => unit.prevMove = MOVE_NONE)

\* C27 witness: a search that was reached by a null move is in its move loop,
\* not having run the early pruning steps.
C27_Witness ==
    /\ unit.spec = "stack" /\ unit.pc = "moves" /\ unit.fn = "search"
    /\ unit.prevMove = MOVE_NULL
    /\ unit.skipEarlyPruning
    /\ unit.ply = 2


\* ------------------------------------------------------------------------
\* The chains of recursive calls of search and qsearch (SpecDescent)
\* ------------------------------------------------------------------------
\* An invocation: its frame's ply and its depth. excluded: ss->excludedMove
\* is set. rootDepth: the depth of the root call it descends from.
DescentNode(fn, nt, ply, depth, skip, excluded, rd) ==
    [spec |-> "descent", pc |-> "node", fn |-> fn, NT |-> nt, ply |-> ply,
     depth |-> depth, skipEarlyPruning |-> skip, excluded |-> excluded,
     rootDepth |-> rd, site |-> "root", from |-> "none"]

\* Mutant: the child reads the ply of its parent.
ChildPly_same(ply) == ply

\* 504, 1071: (ss+1)->ply = ss->ply + 1
ChildPly(ply) == ply + 1

\* a call made by the invocation n: the callee on frame ss+1 or on the same
\* frame, search or, below ONE_PLY, qsearch at DEPTH_ZERO where the code says so
DescentCall(n, site, fn, nt, sameFrame, depth, skip, excluded) ==
    [DescentNode(fn, nt, IF sameFrame THEN n.ply ELSE ChildPly(n.ply), depth,
                 skip, excluded, n.rootDepth)
        EXCEPT !.site = site, !.from = IF sameFrame THEN "same" ELSE "child"]

\* 620-621, 638-639, 900-903, 913-916: qsearch when the depth is below ONE_PLY
SearchOrQsearch(n, site, nt, sameFrame, d, skip) ==
    IF d < ONE_PLY
    THEN DescentCall(n, site, "qsearch", nt, sameFrame, DEPTH_ZERO, FALSE, FALSE)
    ELSE DescentCall(n, site, "search", nt, sameFrame, d, skip,
                     sameFrame /\ n.excluded)

\* 484-488: a search below the root has passed step 2; 1075-1076 for qsearch
Running(n) ==
    /\ n.spec = "descent" /\ n.pc = "node"
    /\ (n.NT = "PV" /\ n.ply = 0 /\ n.fn = "search") \/ n.ply < MAX_PLY

\* 581: the steps 6 to 10 are executed
EarlyPruning(n) == Running(n) /\ n.fn = "search" /\ ~n.skipEarlyPruning

\* 484-488, 1075-1076, 1035, 1243: the invocation returns, at once when
\* ply >= MAX_PLY, or later without a further call
Descent_return ==
    /\ unit.spec = "descent" /\ unit.pc = "node"
    /\ unit' = [unit EXCEPT !.pc = "returned"]
    /\ UNCHANGED sysVars

\* 584-592: razoring
Descent_razoring ==
    /\ EarlyPruning(unit) /\ unit.NT = "NonPV" /\ unit.depth < 4 * ONE_PLY
    /\ unit' = DescentCall(unit, "razoring", "qsearch", "NonPV", TRUE,
                           DEPTH_ZERO, FALSE, FALSE)
    /\ UNCHANGED sysVars

\* 604-621: the null move search
Descent_null ==
    /\ EarlyPruning(unit) /\ unit.NT = "NonPV"
    /\ \E gain \in 0 .. 3 :
        unit' = SearchOrQsearch(unit, "null", "NonPV", FALSE,
                    unit.depth - NullReduction(unit.depth, gain), TRUE)
    /\ UNCHANGED sysVars

\* 633-639: the verification search
Descent_verification ==
    /\ EarlyPruning(unit) /\ unit.NT = "NonPV"
    /\ \E gain \in 0 .. 3 :
        unit' = SearchOrQsearch(unit, "verification", "NonPV", TRUE,
                    unit.depth - NullReduction(unit.depth, gain), TRUE)
    /\ UNCHANGED sysVars

\* 651-669: ProbCut
Descent_probcut ==
    /\ EarlyPruning(unit) /\ unit.NT = "NonPV" /\ unit.depth >= 5 * ONE_PLY
    /\ unit' = DescentCall(unit, "probcut", "search", "NonPV", FALSE,
                           unit.depth - 4 * ONE_PLY, FALSE, FALSE)
    /\ UNCHANGED sysVars

\* 676-682: internal iterative deepening
Descent_iid ==
    /\ EarlyPruning(unit) /\ unit.depth >= 6 * ONE_PLY
    /\ unit' = DescentCall(unit, "iid", "search", unit.NT, TRUE,
                    (CDiv(3 * unit.depth, 4 * ONE_PLY) - 2) * ONE_PLY, TRUE,
                    unit.excluded)
    /\ UNCHANGED sysVars

\* 699-705, 754-761: the singular extension search
Descent_singular ==
    /\ Running(unit) /\ unit.fn = "search"
    /\ ~(unit.NT = "PV" /\ unit.ply = 0)
    /\ unit.depth >= 8 * ONE_PLY
    /\ ~unit.excluded
    /\ unit' = DescentCall(unit, "singular", "search", "NonPV", TRUE,
                    (unit.depth \div (2 * ONE_PLY)) * ONE_PLY, TRUE, TRUE)
    /\ UNCHANGED sysVars

\* 770-771, 841-891: newDepth = depth - ONE_PLY + extension, and the reduced
\* search of step 15
Descent_lmr ==
    /\ Running(unit) /\ unit.fn = "search" /\ unit.depth >= 3 * ONE_PLY
    /\ \E ext \in {DEPTH_ZERO, ONE_PLY}, r \in 0 .. MaxReduction :
        LET newDepth == unit.depth - ONE_PLY + ext
        IN unit' = DescentCall(unit, "lmr", "search", "NonPV", FALSE,
                               Max(newDepth - r * ONE_PLY, ONE_PLY), FALSE, FALSE)
    /\ UNCHANGED sysVars

\* 770-771, 896-916: the full depth search of steps 16 and 17
Descent_move ==
    /\ Running(unit) /\ unit.fn = "search"
    /\ \E ext \in {DEPTH_ZERO, ONE_PLY}, nt \in {"PV", "NonPV"} :
        /\ nt = "PV" => unit.NT = "PV"
        /\ unit' = SearchOrQsearch(unit, "move", nt, FALSE,
                                   unit.depth - ONE_PLY + ext, FALSE)
    /\ UNCHANGED sysVars

\* 1204-1205: a move of qsearch
Descent_qsearch ==
    /\ Running(unit) /\ unit.fn = "qsearch"
    /\ unit' = DescentCall(unit, "qsearch", "qsearch", unit.NT, FALSE,
                           unit.depth - ONE_PLY, FALSE, FALSE)
    /\ UNCHANGED sysVars

\* 319: the root call of an iteration
InitDescent ==
    /\ InitSys
    /\ \E d \in RootDepths :
        unit = DescentNode("search", "PV", 0, d, FALSE, FALSE, d)

NextDescent ==
    \/ Descent_return \/ Descent_razoring \/ Descent_null
    \/ Descent_verification \/ Descent_probcut \/ Descent_iid
    \/ Descent_singular \/ Descent_lmr \/ Descent_move \/ Descent_qsearch

\* an invocation that can go on goes on, with a call or with its return
SpecDescent == InitDescent /\ [][NextDescent]_vars /\ WF_vars(NextDescent)

\* C24: no chain of recursive calls of search and qsearch goes on for ever,
\* with stop never set and extensions that keep the depth of the child at
\* the depth of the parent: every chain reaches an invocation that returns.
C24_EveryChainReturns == <>(unit.pc = "returned")

\* C24: a call goes to frame ss+1 with ply + 1 from a ply below MAX_PLY, or
\* stays on the frame with a strictly smaller depth.
C24_CallsDescend ==
    [][unit'.pc = "node" =>
        \/ unit'.ply = unit.ply + 1 /\ unit.ply < MAX_PLY
        \/ /\ unit'.ply = unit.ply
           /\ unit'.depth < unit.depth
           /\ unit.fn = "search"]_vars

\* C24: every invocation of search and qsearch terminates: every call moves
\* to the next frame below MAX_PLY or stays on the frame with a smaller depth,
\* and every chain of calls reaches an invocation that returns.
C24_Terminates == C24_EveryChainReturns /\ C24_CallsDescend

\* C24 witness: a search at ply MAX_PLY that still has the depth of the root
\* call, every move on the way having been extended, has returned.
C24_Witness ==
    /\ unit.spec = "descent" /\ unit.pc = "returned"
    /\ unit.fn = "search" /\ unit.ply = MAX_PLY
    /\ unit.depth = unit.rootDepth
    /\ unit.rootDepth = DEPTH_MAX - ONE_PLY

\* ------------------------------------------------------------------------
\* The aspiration loop with any root search results (SpecAsp)
\* ------------------------------------------------------------------------
MaxPattern == 3

\* previous scores of the root move
AspScores == {-VALUE_INFINITE + 1, -VALUE_KNOWN_WIN, 0, VALUE_INFINITE - 1}

\* the ways the root search may go on failing: a pattern of fail lows and
\* fail highs that is repeated for ever
AspPatterns == UNION {[1 .. n -> {"low", "high"}] : n \in 1 .. MaxPattern}

\* the result that fails in the wanted direction and widens the window
\* least: alpha for a fail low, beta for a fail high
AspFailing(a, wanted) == IF wanted = "low" THEN a.alpha ELSE a.beta

\* a result of the root search lies strictly between -VALUE_INFINITE and
\* VALUE_INFINITE
AspResult(v) == -VALUE_INFINITE < v /\ v < VALUE_INFINITE

\* 307-312: the window when the loop is entered at rootDepth d
InitAsp ==
    /\ InitSys
    /\ \E d \in {ONE_PLY, 5 * ONE_PLY}, prev \in AspScores \cup {-VALUE_INFINITE},
          pattern \in AspPatterns :
        LET rm == << [RootMove(1) EXCEPT !.previousScore = prev] >>
        IN unit = [spec |-> "asp", pc |-> "search", pattern |-> pattern,
                   pos |-> 1, asp |-> Window(IdleAsp, rm, 0, d)]

\* 317-361 with stop unset: the root search returns bestValue; the loop ends
\* when it is inside the window and widens the window otherwise. The result
\* fails as the pattern wants while such a result exists, and otherwise
\* fails the other way or lies inside the window.
Asp_search ==
    /\ unit.spec = "asp" /\ unit.pc = "search"
    /\ LET wanted == unit.pattern[unit.pos]
           other == IF wanted = "low" THEN "high" ELSE "low"
           results ==
               IF AspResult(AspFailing(unit.asp, wanted))
               THEN {AspFailing(unit.asp, wanted)}
               ELSE {v \in {AspFailing(unit.asp, other), unit.asp.alpha + 1} :
                        AspResult(v)}
       IN \E bestValue \in results :
            LET a == [unit.asp EXCEPT !.bestValue = bestValue]
            IN IF bestValue <= a.alpha \/ bestValue >= a.beta
               THEN unit' = [unit EXCEPT !.asp = Widen(a),
                                !.pos = (unit.pos % Len(unit.pattern)) + 1]
               ELSE unit' = [unit EXCEPT !.asp = a, !.pc = "done"]
    /\ UNCHANGED sysVars

NextAsp == Asp_search

\* the loop goes on while it has not ended
SpecAsp == InitAsp /\ [][NextAsp]_vars /\ WF_vars(NextAsp)

\* C25: the aspiration loop ends for any results strictly between
\* -VALUE_INFINITE and VALUE_INFINITE with stop never set, and alpha < beta
\* holds before every search of the loop.
C25_AspirationTerminates ==
    /\ <>(unit.pc = "done")
    /\ [](unit.pc = "search" => unit.asp.alpha < unit.asp.beta)

\* C25 witness: after fail lows and fail highs alpha and beta are both at
\* the ends of the range and the result is inside the window.
C25_Witness ==
    /\ unit.spec = "asp" /\ unit.pc = "done"
    /\ unit.asp.delta > VALUE_KNOWN_WIN
    /\ unit.asp.alpha = -VALUE_INFINITE
    /\ unit.asp.beta = VALUE_INFINITE


\* ------------------------------------------------------------------------
\* The static evaluation after a null move (SpecNullEval)
\* ------------------------------------------------------------------------
\* the specialized evaluation function of the material entry, me->evaluate:
\* as the evaluator as a whole, a score from White's point of view given
\* from the point of view of the side to move
specialized_eval(stm, v) == IF stm = "WHITE" THEN v ELSE -v

\* evaluate.cpp 945-1022: Evaluation::value() of a position with the side to
\* move stm whose score from White's point of view is v; the specialized
\* evaluation (957-958), the lazy exit (970-972) and the full evaluation (1021)
Evaluation_value(stm, v, path) ==
    IF path = "specialized" THEN specialized_eval(stm, v)
    ELSE IF stm = "WHITE" THEN v ELSE -v

\* what Eval::evaluate reads of the position p
EvalPosition(p) ==
    Position(p.useNNUE, Evaluation_value(p.stm, p.v, p.path), p.nnue,
             5000, 8, 42, 0, 0, FALSE)

\* position.cpp, do_null_move: the side to move changes, the pieces stay; the
\* network is evaluated anew
do_null_move(p, nnue) ==
    [p EXCEPT !.stm = IF p.stm = "WHITE" THEN "BLACK" ELSE "WHITE",
              !.nnue = nnue]

\* Mutant: Tempo is added once.
NullStaticEval_oneTempo(prevStaticEval) == -prevStaticEval + Tempo

\* 574, 1121: -(ss-1)->staticEval + 2 * Eval::Tempo
NullStaticEval(prevStaticEval) == -prevStaticEval + 2 * Tempo

\* 559-578, 1109-1121: ss->staticEval of a node that is not in check. ttHit,
\* tteEval: the TT entry and its eval; prevMove, prevStaticEval: frame ss-1.
\* called: evaluate was called.
StaticEval(p, ttHit, tteEval, prevMove, prevStaticEval) ==
    IF ttHit
    THEN IF tteEval = VALUE_NONE
         THEN [v |-> evaluate(EvalPosition(p)).v, called |-> TRUE]
         ELSE [v |-> tteEval, called |-> FALSE]
    ELSE IF prevMove # MOVE_NULL
    THEN [v |-> evaluate(EvalPosition(p)).v, called |-> TRUE]
    ELSE [v |-> NullStaticEval(prevStaticEval), called |-> FALSE]

\* the eval a TT entry of the position holds: none, or a static evaluation
\* of the position saved earlier
TTEvals(p) == {VALUE_NONE, evaluate(EvalPosition(p)).v}

EvalPaths == {"specialized", "lazy", "full"}

\* a node that is not in check and was reached by a real move
InitNullEval ==
    /\ InitSys
    /\ \E stm \in {"WHITE", "BLACK"}, v \in EvalValues, path \in EvalPaths,
          useNNUE \in BOOLEAN, nnue \in NNUEValues :
        unit = [spec |-> "nulleval", pc |-> "step5", fn |-> "search",
                pos |-> [stm |-> stm, v |-> v, path |-> path,
                         useNNUE |-> useNNUE, nnue |-> nnue],
                ttHit |-> FALSE, prevMove |-> 796, prevStaticEval |-> VALUE_NONE,
                staticEval |-> VALUE_NONE, called |-> FALSE, depth |-> 0]

\* 559-578, 1109-1121: step 5 of search, the stand pat of qsearch
NullEval_step5 ==
    /\ unit.spec = "nulleval" /\ unit.pc = "step5"
    /\ \E ttHit \in BOOLEAN, tteEval \in TTEvals(unit.pos) :
        LET e == StaticEval(unit.pos, ttHit, tteEval, unit.prevMove,
                            unit.prevStaticEval)
        IN unit' = [unit EXCEPT !.pc = "evaluated", !.ttHit = ttHit,
                                !.staticEval = e.v, !.called = e.called]
    /\ UNCHANGED sysVars

\* 616-621: the null move of a search, made after step 5 with the early
\* pruning steps executed, and its search or qsearch on frame ss+1
NullEval_null ==
    /\ unit.spec = "nulleval" /\ unit.pc = "evaluated" /\ unit.fn = "search"
    /\ unit.prevMove # MOVE_NULL
    /\ unit.depth < MaxNullMoves + 1
    /\ \E fn \in {"search", "qsearch"}, nnue \in NNUEValues :
        unit' = [unit EXCEPT !.pc = "step5", !.fn = fn,
                             !.pos = do_null_move(unit.pos, nnue),
                             !.prevMove = MOVE_NULL,
                             !.prevStaticEval = unit.staticEval,
                             !.depth = unit.depth + 1]
    /\ UNCHANGED sysVars

\* 826-916: a move of the move loop and its search on frame ss+1; the score
\* of the new position is another one
NullEval_move ==
    /\ unit.spec = "nulleval" /\ unit.pc = "evaluated" /\ unit.fn = "search"
    /\ unit.depth < MaxNullMoves + 1
    /\ \E fn \in {"search", "qsearch"}, v \in EvalValues :
        unit' = [unit EXCEPT !.pc = "step5", !.fn = fn,
                             !.pos = [do_null_move(unit.pos, unit.pos.nnue)
                                         EXCEPT !.v = v],
                             !.prevMove = 796,
                             !.prevStaticEval = unit.staticEval,
                             !.depth = unit.depth + 1]
    /\ UNCHANGED sysVars

NextNullEval == NullEval_step5 \/ NullEval_null \/ NullEval_move

SpecNullEval == InitNullEval /\ [][NextNullEval]_vars

\* the node was reached by a null move and found no TT entry
AfterNullNoEntry ==
    /\ unit.spec = "nulleval" /\ unit.pc = "evaluated"
    /\ unit.prevMove = MOVE_NULL
    /\ ~unit.ttHit

StatScores == {-40000, -1, 0, 20000}

\* Mutant: the reduction is decreased when see_ge holds for the reversed move.
EscapeAdjustment_seeGe(cutNode, normal, seeGeReversed) == IF cutNode THEN 2 * ONE_PLY ELSE IF normal /\ seeGeReversed THEN -2 * ONE_PLY ELSE DEPTH_ZERO

\* 863-871: + 2 plies at a cut node; otherwise - 2 plies for a NORMAL move
\* when !pos.see_ge(make_move(to_sq(move), from_sq(move)))
EscapeAdjustment(cutNode, normal, seeGeReversed) == IF cutNode THEN 2 * ONE_PLY ELSE IF normal /\ ~seeGeReversed THEN -2 * ONE_PLY ELSE DEPTH_ZERO

\* 843-889: the reduction r of a move and the depth d of its reduced search;
\* before, after: r around the adjustment of 863-871
Reduce(u) ==
    IF u.captureOrPromotion
    THEN LET r == u.base - (IF u.base # 0 THEN ONE_PLY ELSE DEPTH_ZERO)
         IN [before |-> r, after |-> r, r |-> r,
             d |-> Max(u.newDepth - r, ONE_PLY)]
    ELSE LET r1 == u.base - (IF u.prevMoveCount > 15 THEN ONE_PLY ELSE 0)
             r2 == r1 - (IF u.pvExact THEN ONE_PLY ELSE 0)
             r3 == r2 + (IF u.ttCapture THEN ONE_PLY ELSE 0)
             r4 == r3 + EscapeAdjustment(u.cutNode, u.normal, u.seeGeReversed)
             r5 == IF u.statScore >= 0 /\ u.prevStatScore < 0 THEN r4 - ONE_PLY
                   ELSE IF u.prevStatScore >= 0 /\ u.statScore < 0
                   THEN r4 + ONE_PLY
                   ELSE r4
             r == Max(DEPTH_ZERO,
                      (CDiv(r5, ONE_PLY) - CDiv(u.statScore, 20000)) * ONE_PLY)
         IN [before |-> r3, after |-> r4, r |-> r,
             d |-> Max(u.newDepth - r, ONE_PLY)]

\* a move that passes the test of 839-841, with the table value base of
\* reduction<PvNode>(improving, depth, moveCount)
InitLmr ==
    /\ InitSys
    /\ \E base \in 0 .. MaxReduction, newDepth \in {2, 3, 6},
          captureOrPromotion, PvNode, pvExact, ttCapture, cutNode, normal,
          seeGeReversed \in BOOLEAN,
          prevMoveCount \in {15, 16}, statScore \in StatScores,
          prevStatScore \in {-1, 0} :
        /\ ~(PvNode /\ cutNode)
        /\ pvExact => PvNode
        /\ unit = [spec |-> "lmr", pc |-> "step15", base |-> base * ONE_PLY,
                   newDepth |-> newDepth * ONE_PLY,
                   captureOrPromotion |-> captureOrPromotion,
                   PvNode |-> PvNode, pvExact |-> pvExact,
                   ttCapture |-> ttCapture, cutNode |-> cutNode,
                   normal |-> normal, seeGeReversed |-> seeGeReversed,
                   prevMoveCount |-> prevMoveCount, statScore |-> statScore,
                   prevStatScore |-> prevStatScore,
                   before |-> 0, after |-> 0, r |-> 0, d |-> 0]

\* 843-891: the reduction is computed and the reduced search is called
Lmr_reduce ==
    /\ unit.spec = "lmr" /\ unit.pc = "step15"
    /\ LET x == Reduce(unit)
       IN unit' = [unit EXCEPT !.pc = "searched", !.before = x.before,
                               !.after = x.after, !.r = x.r, !.d = x.d]
    /\ UNCHANGED sysVars

NextLmr == Lmr_reduce

SpecLmr == InitLmr /\ [][NextLmr]_vars

\* the reduced search of a non-capture move has been called
QuietReduced ==
    unit.spec = "lmr" /\ unit.pc = "searched" /\ ~unit.captureOrPromotion

\* C29 as stated: for a non-capture move the reduction is increased by two
\* plies at a cut node and otherwise decreased by two plies when see_ge of
\* the reversed move holds for a NORMAL move; the final reduction is not
\* negative and the depth of the reduced search is max(newDepth - r, ONE_PLY).
C29_DecreasedWhenSeeGeHolds ==
    QuietReduced =>
        /\ unit.cutNode => unit.after = unit.before + 2 * ONE_PLY
        /\ (~unit.cutNode /\ unit.normal /\ unit.seeGeReversed) =>
              unit.after = unit.before - 2 * ONE_PLY
        /\ unit.r >= DEPTH_ZERO
        /\ unit.d = Max(unit.newDepth - unit.r, ONE_PLY)

\* C29 amended: the same, with the decrease when see_ge of the reversed move
\* does not hold.
C29_DecreasedWhenSeeGeFails ==
    QuietReduced =>
        /\ unit.cutNode => unit.after = unit.before + 2 * ONE_PLY
        /\ (~unit.cutNode /\ unit.normal /\ ~unit.seeGeReversed) =>
              unit.after = unit.before - 2 * ONE_PLY
        /\ unit.r >= DEPTH_ZERO
        /\ unit.d = Max(unit.newDepth - unit.r, ONE_PLY)

\* C29 witness: a NORMAL quiet move at a node that is not a cut node, with
\* see_ge of the reversed move false; the decrease would make r negative, the
\* final reduction is zero and the search has the depth newDepth.
C29_Witness ==
    /\ QuietReduced
    /\ ~unit.cutNode /\ unit.normal /\ ~unit.seeGeReversed
    /\ unit.after < DEPTH_ZERO
    /\ unit.r = DEPTH_ZERO
    /\ unit.d = unit.newDepth

====
